---- MODULE Spec2Model ----
(***************************************************************************)
(* A model of the Python layer of clvm_rs (wheel/python/clvm_rs): the      *)
(* serializer and the stream parser of ser.py, the indexed parser of       *)
(* de.py with the CLVMTree view of clvm_tree.py, the non-recursive tree    *)
(* hasher of tree_hash.py and the integer casts of casts.py.               *)
(*                                                                         *)
(* A byte is a number in 0..255 and a byte string is a sequence of bytes.  *)
(* A tree is [atom |-> bytes] or [pair |-> <<left, right>>].               *)
(* Python integers are unbounded; a size that may pass 2^31 is kept as a   *)
(* BigNat: its big-endian base-256 digits without leading zeros.           *)
(***************************************************************************)
EXTENDS Integers, Sequences, FiniteSets, TLC

VARIABLES
    blob,           \* the input bytes handed to both deserializers
    src_tree,       \* the tree blob was serialized from (NoTree for raw input)
    calculate_tree_hash, \* the flag given to deserialize_as_tuples
    pc,             \* which call is running: "parse", "from_bytes", "end"
    op_stack,       \* sexp_from_stream: pending tasks, top is the last element
    val_stack,      \* sexp_from_stream: parsed trees, top is the last element
    f_pos,          \* sexp_from_stream: bytes consumed from the stream f
    read_log,       \* sexp_from_stream: every f.read(n) request, in order
    p_status,       \* sexp_from_stream: "running", "ok" or the ValueError text
    p_result,       \* sexp_from_stream: the returned tree (NoTree before)
    d_op_stack,     \* deserialize_as_tuples: pending tasks
    obj_list,       \* deserialize_as_tuples: the triples (start, end, extra)
    tree_hash_list, \* deserialize_as_tuples: the hashes, one per triple
    cursor,         \* deserialize_as_tuples: the read position in blob
    d_status,       \* deserialize_as_tuples: "idle", "running", "ok" or error
    heap,           \* tree_hash: the storage objects, children before parents
    h_op_stack,     \* tree_hash: pending tasks
    obj_stack,      \* tree_hash: object ids
    hash_stack,     \* tree_hash: digests
    h_root,         \* tree_hash: the object sha256_treehash was called on
    h_status,       \* tree_hash: "idle", "running" or "returned"
    h_result,       \* tree_hash: the returned digest
    cache_hits,     \* tree_hash: Treehasher.cache_hits
    h_calls,        \* tree_hash: the number of sha256_treehash calls made
    cast_input,     \* casts and encoders: the value the first call is given
    cast_log,       \* casts and encoders: the calls made, each with its result
    to_convert,     \* to_clvm_object: the stack of values still to convert
    did_convert,    \* to_clvm_object: the stack of converted objects
    c_ops,          \* to_clvm_object: ops, the stack of operations 0, 1 and 2
    conv_status,    \* to_clvm_object: "idle", "running", "returned" or "raised"
    conv_result     \* to_clvm_object: the object returned, or the exception raised

parseVars == <<blob, src_tree, calculate_tree_hash, pc, op_stack, val_stack, f_pos, read_log, p_status, p_result, d_op_stack, obj_list, tree_hash_list, cursor, d_status>>
hashVars == <<heap, h_op_stack, obj_stack, hash_stack, h_root, h_status, h_result, cache_hits, h_calls>>
castVars == <<cast_input, cast_log>>
convVars == <<to_convert, did_convert, c_ops, conv_status, conv_result>>
vars == <<parseVars, hashVars, castVars, convVars>>

(***************************************************************************)
(* Bounds of the model.                                                    *)
(***************************************************************************)
MaxPairs == 2
MaxBlobLen == 5
MaxPrefixBody == 7
LongAtomLen == 64
MaxHeap == 3
MaxCalls == 2
MaxIntBits == 23

\* The longest atom handed to int_from_bytes: its value has at most
\* MaxIntBits magnitude bits and a sign bit.
MaxCastLen == (MaxIntBits + 1) \div 8

(***************************************************************************)
(* Bytes, bit operations and unbounded naturals.                           *)
(***************************************************************************)
Last(s) == s[Len(s)]

Front(s) == SubSeq(s, 1, Len(s) - 1)

Min(a, b) == IF a <= b THEN a ELSE b

Repeat(b, n) == [i \in 1..n |-> b]

RECURSIVE BitAnd(_, _)
BitAnd(a, b) == IF a = 0 \/ b = 0 THEN 0 ELSE (a % 2) * (b % 2) + 2 * BitAnd(a \div 2, b \div 2)

RECURSIVE BitOr(_, _)
BitOr(a, b) == IF a = 0 THEN b ELSE IF b = 0 THEN a ELSE (IF a % 2 = 1 \/ b % 2 = 1 THEN 1 ELSE 0) + 2 * BitOr(a \div 2, b \div 2)

RECURSIVE BigNorm(_)
BigNorm(s) == IF s # <<>> /\ Head(s) = 0 THEN BigNorm(Tail(s)) ELSE s

RECURSIVE BigOfInt(_)
BigOfInt(n) == IF n = 0 THEN <<>> ELSE Append(BigOfInt(n \div 256), n % 256)

RECURSIVE BigToInt(_)
BigToInt(a) == IF a = <<>> THEN 0 ELSE 256 * BigToInt(Front(a)) + Last(a)

RECURSIVE SeqLess(_, _)
SeqLess(a, b) == IF a = <<>> THEN FALSE ELSE IF Head(a) # Head(b) THEN Head(a) < Head(b) ELSE SeqLess(Tail(a), Tail(b))

BigLt(a, b) == IF Len(a) # Len(b) THEN Len(a) < Len(b) ELSE SeqLess(a, b)

BigFitsInt(a) == BigLt(a, <<128, 0, 0, 0>>)

RECURSIVE BigAddC(_, _, _)
BigAddC(a, b, carry) == IF a = <<>> /\ b = <<>> THEN (IF carry = 0 THEN <<>> ELSE <<carry>>) ELSE LET x == IF a = <<>> THEN 0 ELSE Last(a)
            y == IF b = <<>> THEN 0 ELSE Last(b)
            s == x + y + carry
        IN  Append(BigAddC(IF a = <<>> THEN a ELSE Front(a), IF b = <<>> THEN b ELSE Front(b), s \div 256), s % 256)

BigAdd(a, b) == BigAddC(a, b, 0)

BigShr8(a, k) == IF Len(a) > k THEN SubSeq(a, 1, Len(a) - k) ELSE <<>>

BigLow8(a) == IF a = <<>> THEN 0 ELSE Last(a)

(***************************************************************************)
(* Trees and storage objects.                                              *)
(***************************************************************************)
NoTree == [none |-> TRUE]

Atom(a) == [atom |-> a]

Pair(l, r) == [pair |-> <<l, r>>]

TreeNode(i) == [tree_index |-> i]

IsAtom(t) == "atom" \in DOMAIN t

IsPair(t) == "pair" \in DOMAIN t

IsTreeNode(t) == "tree_index" \in DOMAIN t

\* Python's blob[lo:hi] for 0 <= lo: the slice is cut at the end of blob.
Slice(b, lo, hi) == SubSeq(b, lo + 1, Min(hi, Len(b)))

(***************************************************************************)
(* ser.py: serialization.                                                  *)
(***************************************************************************)
MAX_SINGLE_BYTE == 127

CONS_BOX_MARKER == 255

Ok(bytes) == [err |-> "none", bytes |-> bytes]

Raise(msg) == [err |-> msg, bytes |-> <<>>]

\* size_blob_for_blob with the two-byte branch (size < 0x2000) left out.
size_blob_for_size_no_two_byte(size) == IF BigLt(size, BigOfInt(64)) THEN Ok(<<BitOr(128, BigToInt(size))>>)
        ELSE IF BigLt(size, BigOfInt(1048576)) THEN Ok(<<BitOr(224, BigToInt(BigShr8(size, 2))), BigLow8(BigShr8(size, 1)), BigLow8(size)>>)
        ELSE IF BigLt(size, BigOfInt(134217728)) THEN Ok(<<BitOr(240, BigToInt(BigShr8(size, 3))), BigLow8(BigShr8(size, 2)), BigLow8(BigShr8(size, 1)), BigLow8(size)>>)
        ELSE IF BigLt(size, <<4, 0, 0, 0, 0>>) THEN Ok(<<BitOr(248, BigToInt(BigShr8(size, 4))), BigLow8(BigShr8(size, 3)), BigLow8(BigShr8(size, 2)), BigLow8(BigShr8(size, 1)), BigLow8(size)>>)
        ELSE Raise("blob too long")

\* size_blob_for_blob after `size = len(blob)`; size is a BigNat.  The
\* limits are 0x40, 0x2000, 0x100000, 0x8000000 and 0x400000000; size >> 8k
\* is BigShr8(size, k) and (size >> 8k) & 0xFF is BigLow8 of it.
size_blob_for_size(size) == IF BigLt(size, BigOfInt(64)) THEN Ok(<<BitOr(128, BigToInt(size))>>)
        ELSE IF BigLt(size, BigOfInt(8192)) THEN Ok(<<BitOr(192, BigToInt(BigShr8(size, 1))), BigLow8(size)>>)
        ELSE IF BigLt(size, BigOfInt(1048576)) THEN Ok(<<BitOr(224, BigToInt(BigShr8(size, 2))), BigLow8(BigShr8(size, 1)), BigLow8(size)>>)
        ELSE IF BigLt(size, BigOfInt(134217728)) THEN Ok(<<BitOr(240, BigToInt(BigShr8(size, 3))), BigLow8(BigShr8(size, 2)), BigLow8(BigShr8(size, 1)), BigLow8(size)>>)
        ELSE IF BigLt(size, <<4, 0, 0, 0, 0>>) THEN Ok(<<BitOr(248, BigToInt(BigShr8(size, 4))), BigLow8(BigShr8(size, 3)), BigLow8(BigShr8(size, 2)), BigLow8(BigShr8(size, 1)), BigLow8(size)>>)
        ELSE Raise("blob too long")

size_blob_for_blob(b) == size_blob_for_size(BigOfInt(Len(b)))

\* atom_to_byte_iterator yielding every one-byte atom as itself.
atom_to_byte_iterator_any_single(as_atom) == LET size == Len(as_atom)
        IN  IF size = 0 THEN Ok(<<128>>)
            ELSE IF size = 1 THEN Ok(as_atom)
            ELSE LET prefix == size_blob_for_blob(as_atom)
                 IN  IF prefix.err # "none" THEN prefix ELSE Ok(prefix.bytes \o as_atom)

\* The concatenation of the chunks atom_to_byte_iterator yields.
atom_to_byte_iterator(as_atom) == LET size == Len(as_atom)
        IN  IF size = 0 THEN Ok(<<128>>)
            ELSE IF size = 1 /\ as_atom[1] <= MAX_SINGLE_BYTE THEN Ok(as_atom)
            ELSE LET prefix == size_blob_for_blob(as_atom)
                 IN  IF prefix.err # "none" THEN prefix ELSE Ok(prefix.bytes \o as_atom)

\* CLVMTree._cached_serialization dropping the last byte of the slice.
cached_serialization_short(i) == Slice(blob, obj_list[i + 1][1], obj_list[i + 1][2] - 1)

\* CLVMTree._cached_serialization of the node at index i.
cached_serialization(i) == Slice(blob, obj_list[i + 1][1], obj_list[i + 1][2])

\* The loop of sexp_to_byte_iterator: todo_stack with its top last, out the
\* bytes yielded so far.
RECURSIVE sexp_to_byte_loop(_, _)
sexp_to_byte_loop(todo_stack, out) == IF todo_stack = <<>> THEN Ok(out) ELSE LET sexp == Last(todo_stack)
            rest == Front(todo_stack)
        IN  IF IsTreeNode(sexp) THEN sexp_to_byte_loop(rest, out \o cached_serialization(sexp.tree_index))
            ELSE IF IsPair(sexp) THEN sexp_to_byte_loop(rest \o <<sexp.pair[2], sexp.pair[1]>>, Append(out, CONS_BOX_MARKER))
            ELSE LET r == atom_to_byte_iterator(sexp.atom)
                 IN  IF r.err # "none" THEN r ELSE sexp_to_byte_loop(rest, out \o r.bytes)

sexp_to_byte_iterator(sexp) == sexp_to_byte_loop(<<sexp>>, <<>>)

sexp_to_bytes(sexp) == sexp_to_byte_iterator(sexp)

(***************************************************************************)
(* hashlib.sha256 is modelled as a collision-free function: the digest of  *)
(* a message m is the self-delimiting term <<256 + Len(m)>> \o m, so two   *)
(* digests are equal exactly when their messages are, and a concatenation  *)
(* of digests splits in one way only.                                      *)
(***************************************************************************)
sha256(m) == <<256 + Len(m)>> \o m

CHIA_TREE_HASH_ATOM_PREFIX == <<1>>

CHIA_TREE_HASH_PAIR_PREFIX == <<2>>

Treehasher(atom_prefix, pair_prefix) == [atom_prefix |-> atom_prefix, pair_prefix |-> pair_prefix]

CHIA_TREEHASHER == Treehasher(CHIA_TREE_HASH_ATOM_PREFIX, CHIA_TREE_HASH_PAIR_PREFIX)

shatree_atom(self, atom) == sha256(self.atom_prefix \o atom)

shatree_pair(self, left_hash, right_hash) == sha256(self.pair_prefix \o left_hash \o right_hash)

(***************************************************************************)
(* ser.py: the stream parser sexp_from_stream.  The stream f is blob read  *)
(* from position f_pos; f.read(n) returns at most n bytes.                 *)
(***************************************************************************)
ReadRequest(n, line) == [n |-> n, line |-> line]

\* f.read(n) at position pos, n a BigNat.
f_read(pos, n) == IF BigLt(n, BigOfInt(Len(blob) - pos)) THEN SubSeq(blob, pos + 1, pos + BigToInt(n)) ELSE SubSeq(blob, pos + 1, Len(blob))

\* The loop that counts and clears the leading set bits of the first byte.
RECURSIVE leading_bits(_, _, _)
leading_bits(b, bit_mask, bit_count) == IF BitAnd(b, bit_mask) # 0 THEN leading_bits(BitAnd(b, 255 - bit_mask), bit_mask \div 2, bit_count + 1) ELSE [bit_count |-> bit_count, b |-> b]

\* int.from_bytes(size_blob, "big") as a BigNat: the digits are the bytes.
int_from_size_blob(size_blob) == BigNorm(size_blob)

AtomResult(err, atom, pos, log) == [err |-> err, atom |-> atom, pos |-> pos, log |-> log]

\* _atom_from_stream reading the payload before it checks the size.
atom_body_read_first(pos, size_blob, log) == LET size == int_from_size_blob(size_blob)
            data == f_read(pos, size)
            log2 == Append(log, ReadRequest(size, 180))
        IN  IF ~BigLt(size, <<4, 0, 0, 0, 0>>) THEN AtomResult("blob too large", <<>>, pos + Len(data), log2)
            ELSE IF BigOfInt(Len(data)) # size THEN AtomResult("bad encoding", <<>>, pos + Len(data), log2)
            ELSE AtomResult("none", data, pos + Len(data), log2)

\* The tail of _atom_from_stream once size_blob is complete.
atom_body_from_stream(pos, size_blob, log) == LET size == int_from_size_blob(size_blob)
        IN  IF ~BigLt(size, <<4, 0, 0, 0, 0>>) THEN AtomResult("blob too large", <<>>, pos, log)
            ELSE LET data == f_read(pos, size)
                     log2 == Append(log, ReadRequest(size, 180))
                 IN  IF BigOfInt(Len(data)) # size THEN AtomResult("bad encoding", <<>>, pos + Len(data), log2)
                     ELSE AtomResult("none", data, pos + Len(data), log2)

_atom_from_stream(pos, b, log) == IF b = 128 THEN AtomResult("none", <<>>, pos, log)
        ELSE IF b <= MAX_SINGLE_BYTE THEN AtomResult("none", <<b>>, pos, log)
        ELSE LET lb == leading_bits(b, 128, 0)
                 want == lb.bit_count - 1
             IN  IF lb.bit_count > 1
                 THEN LET more == f_read(pos, BigOfInt(want))
                          log1 == Append(log, ReadRequest(BigOfInt(want), 173))
                      IN  IF Len(more) # want THEN AtomResult("bad encoding", <<>>, pos + Len(more), log1)
                          ELSE atom_body_from_stream(pos + want, <<lb.b>> \o more, log1)
                 ELSE atom_body_from_stream(pos, <<lb.b>>, log)

_op_read_sexp ==
        /\ pc = "parse" /\ p_status = "running"
        /\ op_stack # <<>> /\ Last(op_stack) = "_op_read_sexp"
        /\ LET head == f_read(f_pos, <<1>>)
               log0 == Append(read_log, ReadRequest(<<1>>, 124))
               ops == Front(op_stack)
           IN  IF Len(head) = 0
               THEN /\ p_status' = "bad encoding"
                    /\ read_log' = log0
                    /\ op_stack' = ops
                    /\ UNCHANGED <<val_stack, f_pos>>
               ELSE IF head[1] = CONS_BOX_MARKER
               THEN /\ op_stack' = ops \o <<"_op_cons", "_op_read_sexp", "_op_read_sexp">>
                    /\ f_pos' = f_pos + 1
                    /\ read_log' = log0
                    /\ UNCHANGED <<val_stack, p_status>>
               ELSE \E r \in {_atom_from_stream(f_pos + 1, head[1], log0)} :
                        /\ f_pos' = r.pos
                        /\ read_log' = r.log
                        /\ op_stack' = ops
                        /\ IF r.err # "none"
                           THEN p_status' = r.err /\ UNCHANGED val_stack
                           ELSE val_stack' = Append(val_stack, Atom(r.atom)) /\ UNCHANGED p_status
        /\ UNCHANGED <<blob, src_tree, calculate_tree_hash, pc, p_result, d_op_stack, obj_list, tree_hash_list, cursor, d_status>>
        /\ UNCHANGED <<hashVars, castVars, convVars>>

\* _op_cons popping the right child only and leaving the left on the stack.
_op_cons_keeps_left ==
        /\ pc = "parse" /\ p_status = "running"
        /\ op_stack # <<>> /\ Last(op_stack) = "_op_cons"
        /\ op_stack' = Front(op_stack)
        /\ IF Len(val_stack) < 2
           THEN p_status' = "IndexError" /\ val_stack' = <<>>
           ELSE LET right == Last(val_stack)
                    left == Last(Front(val_stack))
                IN  /\ val_stack' = Append(Front(val_stack), Pair(left, right))
                    /\ UNCHANGED p_status
        /\ UNCHANGED <<blob, src_tree, calculate_tree_hash, pc, f_pos, read_log, p_result, d_op_stack, obj_list, tree_hash_list, cursor, d_status>>
        /\ UNCHANGED <<hashVars, castVars, convVars>>

\* _op_cons taking the left child from the top of the stack.
_op_cons_swapped ==
        /\ pc = "parse" /\ p_status = "running"
        /\ op_stack # <<>> /\ Last(op_stack) = "_op_cons"
        /\ op_stack' = Front(op_stack)
        /\ IF Len(val_stack) < 2
           THEN p_status' = "IndexError" /\ val_stack' = <<>>
           ELSE LET left == Last(val_stack)
                    right == Last(Front(val_stack))
                IN  /\ val_stack' = Append(Front(Front(val_stack)), Pair(left, right))
                    /\ UNCHANGED p_status
        /\ UNCHANGED <<blob, src_tree, calculate_tree_hash, pc, f_pos, read_log, p_result, d_op_stack, obj_list, tree_hash_list, cursor, d_status>>
        /\ UNCHANGED <<hashVars, castVars, convVars>>

_op_cons ==
        /\ pc = "parse" /\ p_status = "running"
        /\ op_stack # <<>> /\ Last(op_stack) = "_op_cons"
        /\ op_stack' = Front(op_stack)
        /\ IF Len(val_stack) < 2
           THEN p_status' = "IndexError" /\ val_stack' = <<>>
           ELSE LET right == Last(val_stack)
                    left == Last(Front(val_stack))
                IN  /\ val_stack' = Append(Front(Front(val_stack)), Pair(left, right))
                    /\ UNCHANGED p_status
        /\ UNCHANGED <<blob, src_tree, calculate_tree_hash, pc, f_pos, read_log, p_result, d_op_stack, obj_list, tree_hash_list, cursor, d_status>>
        /\ UNCHANGED <<hashVars, castVars, convVars>>

\* The loop of sexp_from_stream has emptied op_stack: return val_stack.pop().
sexp_from_stream_return ==
        /\ pc = "parse" /\ p_status = "running"
        /\ op_stack = <<>>
        /\ IF val_stack = <<>>
           THEN p_status' = "IndexError" /\ UNCHANGED <<val_stack, p_result>>
           ELSE /\ p_result' = Last(val_stack)
                /\ val_stack' = Front(val_stack)
                /\ p_status' = "ok"
        /\ UNCHANGED <<blob, src_tree, calculate_tree_hash, pc, op_stack, f_pos, read_log, d_op_stack, obj_list, tree_hash_list, cursor, d_status>>
        /\ UNCHANGED <<hashVars, castVars, convVars>>

(***************************************************************************)
(* de.py: the indexed parser deserialize_as_tuples (the Python path, taken *)
(* when the native deserialize_as_tree is absent).  A triple is            *)
(* <<start, end, extra>>; indices into obj_list are Python's, from 0.      *)
(***************************************************************************)
DeserOp(name, index) == [op |-> name, index |-> index]

SizeResult(err, atom_offset, new_cursor) == [err |-> err, atom_offset |-> atom_offset, new_cursor |-> new_cursor]

\* _atom_size_from_cursor without the check against the end of blob.
_atom_size_unchecked(b, cur) == LET b0 == b[cur + 1]
        IN  IF b0 = 128 THEN SizeResult("none", 1, cur + 1)
            ELSE IF b0 <= MAX_SINGLE_BYTE THEN SizeResult("none", 0, cur + 1)
            ELSE LET lb == leading_bits(b0, 128, 0)
                     size_blob == IF lb.bit_count > 1 THEN <<lb.b>> \o Slice(b, cur + 1, cur + lb.bit_count) ELSE <<lb.b>>
                     size == int_from_size_blob(size_blob)
                     new_cursor == BigAdd(BigOfInt(cur), BigAdd(size, BigOfInt(lb.bit_count)))
                 IN  IF ~BigFitsInt(new_cursor) THEN SizeResult("end of stream", 0, 0)
                     ELSE SizeResult("none", lb.bit_count, BigToInt(new_cursor))

_atom_size_from_cursor(b, cur) == LET b0 == b[cur + 1]
        IN  IF b0 = 128 THEN SizeResult("none", 1, cur + 1)
            ELSE IF b0 <= MAX_SINGLE_BYTE THEN SizeResult("none", 0, cur + 1)
            ELSE LET lb == leading_bits(b0, 128, 0)
                     size_blob == IF lb.bit_count > 1 THEN <<lb.b>> \o Slice(b, cur + 1, cur + lb.bit_count) ELSE <<lb.b>>
                     size == int_from_size_blob(size_blob)
                     new_cursor == BigAdd(BigOfInt(cur), BigAdd(size, BigOfInt(lb.bit_count)))
                 IN  IF BigLt(BigOfInt(Len(b)), new_cursor) THEN SizeResult("end of stream", 0, 0)
                     ELSE SizeResult("none", lb.bit_count, BigToInt(new_cursor))

deserialize_as_tuples_call ==
        /\ pc = "parse" /\ p_status # "running"
        /\ pc' = "from_bytes"
        /\ d_status' = "running"
        /\ obj_list' = <<>>
        /\ tree_hash_list' = <<>>
        /\ d_op_stack' = <<DeserOp("parse_obj", 0)>>
        /\ cursor' = 0
        /\ UNCHANGED <<blob, src_tree, calculate_tree_hash, op_stack, val_stack, f_pos, read_log, p_status, p_result>>
        /\ UNCHANGED <<hashVars, castVars, convVars>>

\* parse_obj leaving the cursor on the pair marker it has just seen.
parse_obj_no_advance ==
        /\ pc = "from_bytes" /\ d_status = "running"
        /\ d_op_stack # <<>> /\ Last(d_op_stack).op = "parse_obj"
        /\ LET ops == Front(d_op_stack)
           IN  IF cursor >= Len(blob)
               THEN /\ d_status' = "bad encoding"
                    /\ d_op_stack' = ops
                    /\ UNCHANGED <<obj_list, tree_hash_list, cursor>>
               ELSE IF blob[cursor + 1] = CONS_BOX_MARKER
               THEN LET index == Len(obj_list)
                    IN  /\ obj_list' = Append(obj_list, <<cursor, 0, 0>>)
                        /\ d_op_stack' = ops \o <<DeserOp("save_cursor", index), DeserOp("parse_obj", 0), DeserOp("save_index", index), DeserOp("parse_obj", 0)>>
                        /\ tree_hash_list' = IF calculate_tree_hash THEN Append(tree_hash_list, <<>>) ELSE tree_hash_list
                        /\ cursor' = cursor
                        /\ UNCHANGED d_status
               ELSE \E r \in {_atom_size_from_cursor(blob, cursor)} :
                        IF r.err # "none"
                        THEN /\ d_status' = r.err
                             /\ d_op_stack' = ops
                             /\ UNCHANGED <<obj_list, tree_hash_list, cursor>>
                        ELSE /\ tree_hash_list' = IF calculate_tree_hash THEN Append(tree_hash_list, shatree_atom(CHIA_TREEHASHER, Slice(blob, cursor + r.atom_offset, r.new_cursor))) ELSE tree_hash_list
                             /\ obj_list' = Append(obj_list, <<cursor, r.new_cursor, r.atom_offset>>)
                             /\ cursor' = r.new_cursor
                             /\ d_op_stack' = ops
                             /\ UNCHANGED d_status
        /\ UNCHANGED <<blob, src_tree, calculate_tree_hash, pc, op_stack, val_stack, f_pos, read_log, p_status, p_result>>
        /\ UNCHANGED <<hashVars, castVars, convVars>>

parse_obj ==
        /\ pc = "from_bytes" /\ d_status = "running"
        /\ d_op_stack # <<>> /\ Last(d_op_stack).op = "parse_obj"
        /\ LET ops == Front(d_op_stack)
           IN  IF cursor >= Len(blob)
               THEN /\ d_status' = "bad encoding"
                    /\ d_op_stack' = ops
                    /\ UNCHANGED <<obj_list, tree_hash_list, cursor>>
               ELSE IF blob[cursor + 1] = CONS_BOX_MARKER
               THEN LET index == Len(obj_list)
                    IN  /\ obj_list' = Append(obj_list, <<cursor, 0, 0>>)
                        /\ d_op_stack' = ops \o <<DeserOp("save_cursor", index), DeserOp("parse_obj", 0), DeserOp("save_index", index), DeserOp("parse_obj", 0)>>
                        /\ tree_hash_list' = IF calculate_tree_hash THEN Append(tree_hash_list, <<>>) ELSE tree_hash_list
                        /\ cursor' = cursor + 1
                        /\ UNCHANGED d_status
               ELSE \E r \in {_atom_size_from_cursor(blob, cursor)} :
                        IF r.err # "none"
                        THEN /\ d_status' = r.err
                             /\ d_op_stack' = ops
                             /\ UNCHANGED <<obj_list, tree_hash_list, cursor>>
                        ELSE /\ tree_hash_list' = IF calculate_tree_hash THEN Append(tree_hash_list, shatree_atom(CHIA_TREEHASHER, Slice(blob, cursor + r.atom_offset, r.new_cursor))) ELSE tree_hash_list
                             /\ obj_list' = Append(obj_list, <<cursor, r.new_cursor, r.atom_offset>>)
                             /\ cursor' = r.new_cursor
                             /\ d_op_stack' = ops
                             /\ UNCHANGED d_status
        /\ UNCHANGED <<blob, src_tree, calculate_tree_hash, pc, op_stack, val_stack, f_pos, read_log, p_status, p_result>>
        /\ UNCHANGED <<hashVars, castVars, convVars>>

\* save_index storing the index of the last triple instead of the next.
save_index_last ==
        /\ pc = "from_bytes" /\ d_status = "running"
        /\ d_op_stack # <<>> /\ Last(d_op_stack).op = "save_index"
        /\ LET index == Last(d_op_stack).index
               e == obj_list[index + 1]
           IN  obj_list' = [obj_list EXCEPT ![index + 1] = <<e[1], e[2], Len(obj_list) - 1>>]
        /\ d_op_stack' = Front(d_op_stack)
        /\ UNCHANGED <<tree_hash_list, cursor, d_status>>
        /\ UNCHANGED <<blob, src_tree, calculate_tree_hash, pc, op_stack, val_stack, f_pos, read_log, p_status, p_result>>
        /\ UNCHANGED <<hashVars, castVars, convVars>>

save_index ==
        /\ pc = "from_bytes" /\ d_status = "running"
        /\ d_op_stack # <<>> /\ Last(d_op_stack).op = "save_index"
        /\ LET index == Last(d_op_stack).index
               e == obj_list[index + 1]
           IN  obj_list' = [obj_list EXCEPT ![index + 1] = <<e[1], e[2], Len(obj_list)>>]
        /\ d_op_stack' = Front(d_op_stack)
        /\ UNCHANGED <<tree_hash_list, cursor, d_status>>
        /\ UNCHANGED <<blob, src_tree, calculate_tree_hash, pc, op_stack, val_stack, f_pos, read_log, p_status, p_result>>
        /\ UNCHANGED <<hashVars, castVars, convVars>>

\* save_cursor taking the right hash from the entry after the left child's.
save_cursor_next_hash ==
        /\ pc = "from_bytes" /\ d_status = "running"
        /\ d_op_stack # <<>> /\ Last(d_op_stack).op = "save_cursor"
        /\ LET index == Last(d_op_stack).index
               blob_index == obj_list[index + 1][1]
               v0 == obj_list[index + 1][1]
               v2 == obj_list[index + 1][3]
           IN  IF blob[blob_index + 1] # 255
               THEN /\ d_status' = "AssertionError"
                    /\ UNCHANGED <<obj_list, tree_hash_list>>
               ELSE /\ obj_list' = [obj_list EXCEPT ![index + 1] = <<v0, cursor, v2>>]
                    /\ tree_hash_list' = IF calculate_tree_hash
                                         THEN LET left_hash == tree_hash_list[index + 2]
                                                  hash_index == v2
                                                  right_hash == tree_hash_list[index + 3]
                                              IN  [tree_hash_list EXCEPT ![index + 1] = shatree_pair(CHIA_TREEHASHER, left_hash, right_hash)]
                                         ELSE tree_hash_list
                    /\ UNCHANGED d_status
        /\ d_op_stack' = Front(d_op_stack)
        /\ UNCHANGED cursor
        /\ UNCHANGED <<blob, src_tree, calculate_tree_hash, pc, op_stack, val_stack, f_pos, read_log, p_status, p_result>>
        /\ UNCHANGED <<hashVars, castVars, convVars>>

save_cursor ==
        /\ pc = "from_bytes" /\ d_status = "running"
        /\ d_op_stack # <<>> /\ Last(d_op_stack).op = "save_cursor"
        /\ LET index == Last(d_op_stack).index
               blob_index == obj_list[index + 1][1]
               v0 == obj_list[index + 1][1]
               v2 == obj_list[index + 1][3]
           IN  IF blob[blob_index + 1] # 255
               THEN /\ d_status' = "AssertionError"
                    /\ UNCHANGED <<obj_list, tree_hash_list>>
               ELSE /\ obj_list' = [obj_list EXCEPT ![index + 1] = <<v0, cursor, v2>>]
                    /\ tree_hash_list' = IF calculate_tree_hash
                                         THEN LET left_hash == tree_hash_list[index + 2]
                                                  hash_index == v2
                                                  right_hash == tree_hash_list[hash_index + 1]
                                              IN  [tree_hash_list EXCEPT ![index + 1] = shatree_pair(CHIA_TREEHASHER, left_hash, right_hash)]
                                         ELSE tree_hash_list
                    /\ UNCHANGED d_status
        /\ d_op_stack' = Front(d_op_stack)
        /\ UNCHANGED cursor
        /\ UNCHANGED <<blob, src_tree, calculate_tree_hash, pc, op_stack, val_stack, f_pos, read_log, p_status, p_result>>
        /\ UNCHANGED <<hashVars, castVars, convVars>>

\* The loop of deserialize_as_tuples has emptied op_stack: return the lists.
deserialize_as_tuples_return ==
        /\ pc = "from_bytes" /\ d_status = "running"
        /\ d_op_stack = <<>>
        /\ d_status' = "ok"
        /\ pc' = "end"
        /\ UNCHANGED <<d_op_stack, obj_list, tree_hash_list, cursor>>
        /\ UNCHANGED <<blob, src_tree, calculate_tree_hash, op_stack, val_stack, f_pos, read_log, p_status, p_result>>
        /\ UNCHANGED <<hashVars, castVars, convVars>>

(***************************************************************************)
(* clvm_tree.py: the CLVMTree view of blob and obj_list.                   *)
(***************************************************************************)
\* CLVMTree.__init__ taking the whole slice of an atom, prefix included.
CLVMTree_atom_whole_slice(index) == LET t == obj_list[index + 1]
        IN  Slice(blob, t[1], t[2])

\* CLVMTree.__init__: the atom of the node at index (Python index).
CLVMTree_atom(index) == LET t == obj_list[index + 1]
        IN  Slice(blob, t[1] + t[3], t[2])

CLVMTree_is_pair(index) == blob[obj_list[index + 1][1] + 1] = 255

\* CLVMTree.pair: the indices of the two children.
CLVMTree_pair(index) == <<index + 1, obj_list[index + 1][3]>>

\* The tree a CLVMTree node stands for, read through .atom and .pair.
RECURSIVE CLVMTree_as_tree(_)
CLVMTree_as_tree(index) == IF CLVMTree_is_pair(index)
        THEN Pair(CLVMTree_as_tree(CLVMTree_pair(index)[1]), CLVMTree_as_tree(CLVMTree_pair(index)[2]))
        ELSE Atom(CLVMTree_atom(index))

(***************************************************************************)
(* Inputs of the two deserializers.                                        *)
(***************************************************************************)
SmallAtoms == {<<>>, <<127>>, <<128>>, <<255, 1>>}

LongAtom == Repeat(32, LongAtomLen)

RECURSIVE TreesWithPairs(_)
TreesWithPairs(n) == IF n = 0 THEN {Atom(a) : a \in SmallAtoms}
        ELSE UNION {{Pair(l, r) : l \in TreesWithPairs(i), r \in TreesWithPairs(n - 1 - i)} : i \in 0..(n - 1)}

LongTrees == {Atom(LongAtom), Pair(Atom(LongAtom), Atom(<<>>)), Pair(Atom(<<128>>), Atom(LongAtom))}

Trees == UNION {TreesWithPairs(n) : n \in 0..MaxPairs} \cup LongTrees

ByteAlphabet == {0, 1, 128, 129, 192, 255}

SeqsUpTo(S, n) == UNION {[1..k -> S] : k \in 0..n}

LongHeads == {248, 252, 254}

PrefixBlobs == {<<h>> \o body : h \in LongHeads, body \in SeqsUpTo({0, 1, 4}, MaxPrefixBody)}

\* The blobs of test_serialize.py's rejection tests.
TestBlobs == {<<254>> \o Repeat(255, 6), <<252, 128, 0, 0, 0, 0>>, <<252>>, <<191, 32, 32, 32>>, <<254, 32, 32, 32, 32>>, <<255, 128, 133>>, <<255, 128, 129, 133>>}

RawBlobs == SeqsUpTo(ByteAlphabet, MaxBlobLen) \cup PrefixBlobs \cup TestBlobs

HashIdle ==
        /\ heap = <<>> /\ h_op_stack = <<>> /\ obj_stack = <<>> /\ hash_stack = <<>>
        /\ h_root = 0 /\ h_status = "idle" /\ h_result = <<>> /\ cache_hits = 0 /\ h_calls = 0

CastIdle == cast_input = [kind |-> "none", value |-> 0] /\ cast_log = <<>>

ConvIdle ==
        /\ to_convert = <<>> /\ did_convert = <<>> /\ c_ops = <<>>
        /\ conv_status = "idle" /\ conv_result = NoTree

\* Program.parse(io.BytesIO(blob)) has been called: sexp_from_stream starts.
ParseStart ==
        /\ pc = "parse"
        /\ op_stack = <<"_op_read_sexp">> /\ val_stack = <<>>
        /\ f_pos = 0 /\ read_log = <<>>
        /\ p_status = "running" /\ p_result = NoTree
        /\ d_op_stack = <<>> /\ obj_list = <<>> /\ tree_hash_list = <<>>
        /\ cursor = 0 /\ d_status = "idle"

\* The input is the serialization of a tree, whole or cut short.
InitSerde ==
        /\ \E t \in Trees : \E k \in 0..Len(sexp_to_bytes(t).bytes) :
                /\ src_tree = t
                /\ blob = SubSeq(sexp_to_bytes(t).bytes, 1, k)
        /\ calculate_tree_hash \in BOOLEAN
        /\ ParseStart /\ HashIdle /\ CastIdle /\ ConvIdle

\* The input is any byte string.
InitParse ==
        /\ blob \in RawBlobs
        /\ src_tree = NoTree
        /\ calculate_tree_hash \in BOOLEAN
        /\ ParseStart /\ HashIdle /\ CastIdle /\ ConvIdle

NextParse == \/ _op_read_sexp
        \/ _op_cons
        \/ sexp_from_stream_return
        \/ deserialize_as_tuples_call
        \/ parse_obj
        \/ save_index
        \/ save_cursor
        \/ deserialize_as_tuples_return

SpecSerde == InitSerde /\ [][NextParse]_vars

SpecParse == InitParse /\ [][NextParse]_vars

(***************************************************************************)
(* Program (program.py) seen from the two deserializers.                   *)
(***************************************************************************)
\* Program.wrap of a CLVMTree node, read through Program.atom and
\* Program.pair: a Program keeps the atom and wraps the children on demand;
\* it has no _cached_serialization.
Program_wrap(v) == IF IsTreeNode(v) THEN CLVMTree_as_tree(v.tree_index) ELSE v

\* Program.from_bytes(blob) once deserialize_as_tuples has returned.
Program_from_bytes == Program_wrap(TreeNode(0))

\* The bytes from_bytes_with_cursor counts as consumed: len(bytes(tree)).
from_bytes_consumed == Len(sexp_to_bytes(TreeNode(0)).bytes)

ValueErrors == {"bad encoding", "blob too large", "end of stream"}

ParseDone == p_status # "running"

FromBytesDone == d_status \notin {"idle", "running"}

WholeInput == src_tree # NoTree /\ blob = sexp_to_bytes(src_tree).bytes

Truncated == src_tree # NoTree /\ Len(blob) < Len(sexp_to_bytes(src_tree).bytes)

(***************************************************************************)
(* C1: serializing a tree with sexp_to_bytes and parsing the bytes with    *)
(* sexp_from_stream succeeds, consumes every byte and yields an equal tree.*)
(***************************************************************************)
C1_SerializeThenParse == (WholeInput /\ ParseDone) => (p_status = "ok" /\ f_pos = Len(blob) /\ p_result = src_tree /\ val_stack = <<>>)

C1_Witness == WholeInput /\ p_status = "ok" /\ IsPair(p_result) /\ p_result.pair[1] = Atom(<<128>>) /\ IsPair(p_result.pair[2])

(***************************************************************************)
(* C2: whenever Program.parse or Program.from_bytes accepts b having       *)
(* consumed k bytes, serializing the resulting Program yields b[0..k).     *)
(* Stated as written; it fails on an atom encoded with a longer form than  *)
(* the serializer would choose, such as 81 00.                             *)
(***************************************************************************)
C2_ParseThenSerialize ==
        /\ p_status = "ok" => sexp_to_bytes(p_result).bytes = SubSeq(blob, 1, f_pos)
        /\ d_status = "ok" => sexp_to_bytes(Program_from_bytes).bytes = SubSeq(blob, 1, from_bytes_consumed)

\* The atom at index i of obj_list is written in the form the serializer
\* chooses for it: its serialization is as long as the bytes it occupies.
ShortestForm(i) == CLVMTree_is_pair(i) \/ Len(atom_to_byte_iterator(CLVMTree_atom(i)).bytes) = obj_list[i + 1][2] - obj_list[i + 1][1]

AllShortestForm == \A i \in 0..(Len(obj_list) - 1) : ShortestForm(i)

(***************************************************************************)
(* C2 as amended: when Program.parse or Program.from_bytes accepts b       *)
(* having consumed k bytes and every atom in b[0..k) is written in the     *)
(* serializer's own (shortest) form, serializing the resulting Program     *)
(* yields exactly b[0..k); for every accepted b the serialization is never *)
(* longer than k.                                                          *)
(***************************************************************************)
C2_ParseThenSerializeShortest == d_status = "ok" =>
        /\ Len(sexp_to_bytes(Program_from_bytes).bytes) <= from_bytes_consumed
        /\ AllShortestForm => sexp_to_bytes(Program_from_bytes).bytes = SubSeq(blob, 1, from_bytes_consumed)
        /\ p_status = "ok" => Len(sexp_to_bytes(p_result).bytes) <= f_pos
        /\ (p_status = "ok" /\ AllShortestForm) => sexp_to_bytes(p_result).bytes = SubSeq(blob, 1, f_pos)

C2_Witness == d_status = "ok" /\ p_status = "ok" /\ AllShortestForm /\ blob = <<255, 129, 128, 1, 0>> /\ f_pos = 4

(***************************************************************************)
(* C4: both deserializers reject every atom whose first byte is 0xFC or    *)
(* higher, whatever length the prefix bytes encode.  The code accepts      *)
(* fc 00 00 00 00 00 as the empty atom, so this does not hold of it.       *)
(***************************************************************************)
C4_SixBytePrefixRejected == (blob # <<>> /\ blob[1] >= 252 /\ blob[1] # CONS_BOX_MARKER) => (p_status # "ok" /\ d_status # "ok")

C4_Witness == blob = <<252, 0, 0, 0, 0, 0>> /\ p_status = "ok" /\ p_result = Atom(<<>>) /\ d_status = "ok" /\ obj_list = <<<<0, 6, 6>>>>

TwoTo34 == <<4, 0, 0, 0, 0>>

\* The size the prefix at the start of blob declares is 2^34 or more.
RootSizeTooLarge == /\ blob # <<>> /\ blob[1] > 128 /\ blob[1] # CONS_BOX_MARKER
        /\ LET lb == leading_bits(blob[1], 128, 0)
           IN  /\ Len(blob) >= lb.bit_count
               /\ ~BigLt(BigNorm(<<lb.b>> \o SubSeq(blob, 2, lb.bit_count)), TwoTo34)

(***************************************************************************)
(* C5: when sexp_from_stream decodes a size prefix of value 2^34 or more   *)
(* it raises ValueError before it asks the stream for any payload byte:    *)
(* no payload read (ser.py line 180) ever asks for 2^34 bytes or more, the *)
(* last request before "blob too large" is the one for the size bytes, and *)
(* an input that opens with such a prefix ends in "blob too large" after   *)
(* the two reads of the prefix alone.                                      *)
(***************************************************************************)
C5_TooLargeBeforePayloadRead ==
        /\ \A i \in DOMAIN read_log : read_log[i].line = 180 => BigLt(read_log[i].n, TwoTo34)
        /\ p_status = "blob too large" => (Last(read_log).line = 173 /\ p_result = NoTree)
        /\ (ParseDone /\ RootSizeTooLarge) => (p_status = "blob too large" /\ Len(read_log) = 2 /\ f_pos = BigToInt(read_log[2].n) + 1)

C5_Witness == blob = <<254, 255, 255, 255, 255, 255, 255>> /\ p_status = "blob too large" /\ f_pos = 7 /\ Len(read_log) = 2

(***************************************************************************)
(* C6: on every proper prefix of the serialization of a tree, the empty    *)
(* one included, Program.parse and Program.from_bytes both fail with       *)
(* ValueError and return no tree.                                          *)
(***************************************************************************)
C6_TruncatedRejected == Truncated =>
        /\ ParseDone => (p_status \in ValueErrors /\ p_result = NoTree)
        /\ FromBytesDone => d_status \in ValueErrors

C6_Witness == Truncated /\ Len(blob) > LongAtomLen /\ blob[1] = CONS_BOX_MARKER /\ p_status = "bad encoding" /\ d_status = "end of stream"

\* The subtrees of t in pre-order: t, then those of the left child, then
\* those of the right child.
RECURSIVE PreOrder(_)
PreOrder(t) == IF IsPair(t) THEN <<t>> \o PreOrder(t.pair[1]) \o PreOrder(t.pair[2]) ELSE <<t>>

(***************************************************************************)
(* C10: after deserialize_as_tuples succeeds the triples are in pre-order, *)
(* and for the triple (start, end, extra) at index i: if b[start] is 0xFF  *)
(* the node is a pair whose left child is index i+1, starting at start+1,  *)
(* whose right child is index extra, starting where the left child ends,   *)
(* and whose end is the right child's end; otherwise the node is an atom   *)
(* whose payload is b[start+extra .. end).                                 *)
(***************************************************************************)
C10_TripleStructure == d_status = "ok" =>
        /\ obj_list # <<>>
        /\ \A i \in 0..(Len(obj_list) - 1) :
            LET start == obj_list[i + 1][1]
                end == obj_list[i + 1][2]
                extra == obj_list[i + 1][3]
            IN  /\ 0 <= start /\ start < end /\ end <= Len(blob)
                /\ IF blob[start + 1] = CONS_BOX_MARKER
                   THEN /\ i + 1 < extra /\ extra < Len(obj_list)
                        /\ obj_list[i + 2][1] = start + 1
                        /\ obj_list[extra + 1][1] = obj_list[i + 2][2]
                        /\ obj_list[extra + 1][2] = end
                   ELSE /\ start + extra <= end
                        /\ atom_to_byte_iterator(SubSeq(blob, start + extra + 1, end)).bytes = sexp_to_bytes(Atom(CLVMTree_atom(i))).bytes
                        /\ _atom_from_stream(start + 1, blob[start + 1], <<>>).err = "none"
                        /\ _atom_from_stream(start + 1, blob[start + 1], <<>>).atom = SubSeq(blob, start + extra + 1, end)
        /\ [i \in 1..Len(obj_list) |-> CLVMTree_as_tree(i - 1)] = PreOrder(CLVMTree_as_tree(0))

C10_Witness == d_status = "ok" /\ blob = <<255, 255, 0, 1, 128>> /\ obj_list = <<<<0, 5, 4>>, <<1, 4, 3>>, <<2, 3, 0>>, <<3, 4, 0>>, <<4, 5, 1>>>>

(***************************************************************************)
(* Serializing a node of a CLVMTree and deserializing the bytes on their   *)
(* own.  After CLVMTree.from_bytes(blob) has succeeded, bytes(n) is taken  *)
(* of a node n and handed to Program.parse and Program.from_bytes as a new *)
(* input; src_tree keeps the tree n stood for.  The node is a proper       *)
(* subtree, or the root when bytes follow it in blob, so the new input is  *)
(* shorter than the old one.                                               *)
(***************************************************************************)
\* CLVMTree.__bytes__ of the node at index i.
CLVMTree_bytes(i) == cached_serialization(i)

CLVMTree_bytes_call ==
        /\ pc = "end" /\ d_status = "ok"
        /\ \E i \in 0..(Len(obj_list) - 1) :
            /\ i > 0 \/ obj_list[1][2] < Len(blob)
            /\ blob' = sexp_to_bytes(TreeNode(i)).bytes
            /\ src_tree' = CLVMTree_as_tree(i)
        /\ pc' = "parse"
        /\ op_stack' = <<"_op_read_sexp">> /\ val_stack' = <<>>
        /\ f_pos' = 0 /\ read_log' = <<>>
        /\ p_status' = "running" /\ p_result' = NoTree
        /\ d_op_stack' = <<>> /\ obj_list' = <<>> /\ tree_hash_list' = <<>>
        /\ cursor' = 0 /\ d_status' = "idle"
        /\ UNCHANGED calculate_tree_hash
        /\ UNCHANGED <<hashVars, castVars, convVars>>

NextSlice ==
        \/ NextParse
        \/ CLVMTree_bytes_call

SpecSlice == InitParse /\ [][NextSlice]_vars

\* The input is the bytes of a node taken out of an earlier input.
SliceInput == src_tree # NoTree

(***************************************************************************)
(* C11: for every node n of CLVMTree.from_bytes(b) with triple             *)
(* (start, end, _), sexp_to_bytes(n) and bytes(n) are exactly b[start:end],*)
(* and deserializing that slice on its own, with either parser, succeeds,  *)
(* consumes the whole slice and yields a tree equal to n.                  *)
(***************************************************************************)
C11_CachedSlice ==
        /\ d_status = "ok" => \A i \in 0..(Len(obj_list) - 1) :
                /\ sexp_to_bytes(TreeNode(i)) = Ok(Slice(blob, obj_list[i + 1][1], obj_list[i + 1][2]))
                /\ CLVMTree_bytes(i) = Slice(blob, obj_list[i + 1][1], obj_list[i + 1][2])
        /\ (SliceInput /\ ParseDone) => (p_status = "ok" /\ p_result = src_tree /\ f_pos = Len(blob))
        /\ (SliceInput /\ FromBytesDone) => (d_status = "ok" /\ Program_from_bytes = src_tree /\ obj_list[1][2] = Len(blob))

C11_Witness == SliceInput /\ d_status = "ok" /\ blob = <<255, 129, 1, 128>> /\ src_tree = Pair(Atom(<<1>>), Atom(<<>>)) /\ p_result = src_tree

(***************************************************************************)
(* tree_hash.py: Treehasher.sha256_treehash over storage objects.  heap[i] *)
(* is the object with id i: an atom or a pair of earlier objects, its      *)
(* _cached_sha256_treehash (None when unset) and whether the object        *)
(* refuses setattr (AttributeError).                                       *)
(***************************************************************************)
None == <<>>

AtomObj(a, frozen) == [atom |-> a, is_pair |-> FALSE, left |-> 0, right |-> 0, cached |-> None, frozen |-> frozen]

PairObj(l, r, frozen) == [atom |-> <<>>, is_pair |-> TRUE, left |-> l, right |-> r, cached |-> None, frozen |-> frozen]

\* setattr(obj, "_cached_sha256_treehash", r), AttributeError swallowed.
\* setattr storing the hash of the object's atom field whatever r is.
set_cached_atom_hash(h, obj, r) ==
        IF h[obj].frozen THEN h ELSE [h EXCEPT ![obj].cached = shatree_atom(CHIA_TREEHASHER, h[obj].atom)]

set_cached(h, obj, r) == IF h[obj].frozen THEN h ELSE [h EXCEPT ![obj].cached = r]

sha256_treehash_call ==
        /\ h_status \in {"idle", "returned"} /\ h_calls < MaxCalls
        /\ \E clvm_storage \in 1..Len(heap) :
            /\ h_root' = clvm_storage
            /\ obj_stack' = <<clvm_storage>>
        /\ h_op_stack' = <<"handle_obj">>
        /\ hash_stack' = <<>>
        /\ h_status' = "running"
        /\ h_calls' = h_calls + 1
        /\ UNCHANGED <<heap, h_result, cache_hits>>
        /\ UNCHANGED <<parseVars, castVars, convVars>>

handle_obj ==
        /\ h_status = "running"
        /\ h_op_stack # <<>> /\ Last(h_op_stack) = "handle_obj"
        /\ LET ops == Front(h_op_stack)
               obj == Last(obj_stack)
               objs == Front(obj_stack)
               r == heap[obj].cached
           IN  IF r # None
               THEN /\ cache_hits' = cache_hits + 1
                    /\ hash_stack' = Append(hash_stack, r)
                    /\ obj_stack' = objs
                    /\ h_op_stack' = ops
                    /\ UNCHANGED heap
               ELSE IF ~heap[obj].is_pair
               THEN /\ hash_stack' = Append(hash_stack, shatree_atom(CHIA_TREEHASHER, heap[obj].atom))
                    /\ heap' = set_cached(heap, obj, shatree_atom(CHIA_TREEHASHER, heap[obj].atom))
                    /\ obj_stack' = objs
                    /\ h_op_stack' = ops
                    /\ UNCHANGED cache_hits
               ELSE /\ obj_stack' = objs \o <<obj, heap[obj].left, heap[obj].right>>
                    /\ h_op_stack' = ops \o <<"handle_pair", "handle_obj", "handle_obj">>
                    /\ UNCHANGED <<heap, hash_stack, cache_hits>>
        /\ UNCHANGED <<h_root, h_status, h_result, h_calls>>
        /\ UNCHANGED <<parseVars, castVars, convVars>>

\* handle_pair taking the right child's hash for the left one.
handle_pair_swapped ==
        /\ h_status = "running"
        /\ h_op_stack # <<>> /\ Last(h_op_stack) = "handle_pair"
        /\ LET p1 == Last(hash_stack)
               p0 == Last(Front(hash_stack))
               r == shatree_pair(CHIA_TREEHASHER, p0, p1)
               obj == Last(obj_stack)
           IN  /\ hash_stack' = Append(Front(Front(hash_stack)), r)
               /\ obj_stack' = Front(obj_stack)
               /\ heap' = set_cached(heap, obj, r)
        /\ h_op_stack' = Front(h_op_stack)
        /\ UNCHANGED <<h_root, h_status, h_result, cache_hits, h_calls>>
        /\ UNCHANGED <<parseVars, castVars, convVars>>

handle_pair ==
        /\ h_status = "running"
        /\ h_op_stack # <<>> /\ Last(h_op_stack) = "handle_pair"
        /\ LET p0 == Last(hash_stack)
               p1 == Last(Front(hash_stack))
               r == shatree_pair(CHIA_TREEHASHER, p0, p1)
               obj == Last(obj_stack)
           IN  /\ hash_stack' = Append(Front(Front(hash_stack)), r)
               /\ obj_stack' = Front(obj_stack)
               /\ heap' = set_cached(heap, obj, r)
        /\ h_op_stack' = Front(h_op_stack)
        /\ UNCHANGED <<h_root, h_status, h_result, cache_hits, h_calls>>
        /\ UNCHANGED <<parseVars, castVars, convVars>>

\* The loop of sha256_treehash has emptied op_stack: return hash_stack[0].
sha256_treehash_return ==
        /\ h_status = "running"
        /\ h_op_stack = <<>>
        /\ h_result' = hash_stack[1]
        /\ h_status' = "returned"
        /\ UNCHANGED <<heap, h_op_stack, obj_stack, hash_stack, h_root, cache_hits, h_calls>>
        /\ UNCHANGED <<parseVars, castVars, convVars>>

HashAtoms == {<<>>, <<1>>, <<2, 128>>}

RECURSIVE Heaps(_)
Heaps(n) == IF n = 0 THEN {<<>>}
        ELSE LET objs == {AtomObj(a, f) : a \in HashAtoms, f \in BOOLEAN} \cup {PairObj(l, r, f) : l \in 1..(n - 1), r \in 1..(n - 1), f \in BOOLEAN}
             IN  {Append(h, o) : h \in Heaps(n - 1), o \in objs}

ParseIdle ==
        /\ blob = <<>> /\ src_tree = NoTree /\ calculate_tree_hash = FALSE /\ pc = "end"
        /\ op_stack = <<>> /\ val_stack = <<>> /\ f_pos = 0 /\ read_log = <<>>
        /\ p_status = "idle" /\ p_result = NoTree
        /\ d_op_stack = <<>> /\ obj_list = <<>> /\ tree_hash_list = <<>>
        /\ cursor = 0 /\ d_status = "idle"

InitHash ==
        /\ heap \in UNION {Heaps(n) : n \in 1..MaxHeap}
        /\ h_op_stack = <<>> /\ obj_stack = <<>> /\ hash_stack = <<>>
        /\ h_root = 0 /\ h_status = "idle" /\ h_result = None
        /\ cache_hits = 0 /\ h_calls = 0
        /\ ParseIdle /\ CastIdle /\ ConvIdle

NextHash ==
        \/ sha256_treehash_call
        \/ handle_obj
        \/ handle_pair
        \/ sha256_treehash_return

SpecHash == InitHash /\ [][NextHash]_vars

\* The tree hash as the recursive definition gives it.
RECURSIVE H(_, _)
H(h, obj) == IF h[obj].is_pair THEN sha256(<<2>> \o H(h, h[obj].left) \o H(h, h[obj].right)) ELSE sha256(<<1>> \o h[obj].atom)

(***************************************************************************)
(* C3: sha256_treehash, run as a loop over its op, object and hash stacks, *)
(* returns H(t), where H(atom a) = sha256(01 || a) and H(pair(l, r)) =     *)
(* sha256(02 || H(l) || H(r)) with the left child's hash first, and ends   *)
(* with exactly one hash on the hash stack.                                *)
(***************************************************************************)
C3_TreehashIsH == h_status = "returned" => (h_result = H(heap, h_root) /\ hash_stack = <<H(heap, h_root)>> /\ obj_stack = <<>>)

C3_Witness == h_status = "returned" /\ Len(heap) = 3 /\ heap[3].is_pair /\ heap[3].left = 2 /\ heap[3].right = 1 /\ heap[2].is_pair /\ h_root = 3 /\ h_calls = 1 /\ cache_hits = 2

(***************************************************************************)
(* The hashes deserialize_as_tuples preloads against a walk of an equal    *)
(* tree.  After Program.from_bytes(blob) has succeeded, Program.to builds  *)
(* the same tree again out of fresh objects, which hold no cached hash,    *)
(* and sha256_treehash walks any of them.                                  *)
(***************************************************************************)
\* The objects of a heap moved up by k places.
Shift(h, k) == [j \in DOMAIN h |-> IF h[j].is_pair THEN [h[j] EXCEPT !.left = @ + k, !.right = @ + k] ELSE h[j]]

\* The objects Program.to makes for tree t, children before parents; the
\* object for t itself is the last.
RECURSIVE HeapOf(_)
HeapOf(t) == IF IsPair(t)
        THEN LET hl == HeapOf(t.pair[1])
                 hr == Shift(HeapOf(t.pair[2]), Len(hl))
             IN  hl \o hr \o <<PairObj(Len(hl), Len(hl) + Len(hr), FALSE)>>
        ELSE <<AtomObj(t.atom, FALSE)>>

\* The tree an object stands for, read through atom and pair.
RECURSIVE TreeOf(_, _)
TreeOf(h, obj) == IF h[obj].is_pair THEN Pair(TreeOf(h, h[obj].left), TreeOf(h, h[obj].right)) ELSE Atom(h[obj].atom)

\* CLVMTree.__init__: the hash preloaded on the node at index, None when
\* tree_hashes is None or empty.
CLVMTree_cached_sha256_treehash(index) == IF calculate_tree_hash /\ tree_hash_list # <<>> THEN tree_hash_list[index + 1] ELSE None

Program_to_call ==
        /\ pc = "end" /\ d_status = "ok"
        /\ heap = <<>> /\ h_status = "idle"
        /\ heap' = HeapOf(Program_from_bytes)
        /\ UNCHANGED <<h_op_stack, obj_stack, hash_stack, h_root, h_status, h_result, cache_hits, h_calls>>
        /\ UNCHANGED <<parseVars, castVars, convVars>>

InitPreload ==
        /\ blob \in RawBlobs
        /\ src_tree = NoTree
        /\ calculate_tree_hash = TRUE
        /\ ParseStart /\ HashIdle /\ CastIdle /\ ConvIdle

NextPreload ==
        \/ NextParse
        \/ Program_to_call
        \/ NextHash

SpecPreload == InitPreload /\ [][NextPreload]_vars

(***************************************************************************)
(* C12: when deserialize_as_tuples runs with calculate_tree_hash = true it *)
(* stores one hash per triple, and the hash preloaded on the CLVMTree node *)
(* at pre-order index i is the hash sha256_treehash returns after walking  *)
(* an equal tree built independently with Program.to.                      *)
(***************************************************************************)
C12_PreloadedHash ==
        /\ (d_status = "ok" /\ calculate_tree_hash) => Len(tree_hash_list) = Len(obj_list)
        /\ (d_status = "ok" /\ h_status = "returned") => \A i \in 0..(Len(obj_list) - 1) :
                CLVMTree_as_tree(i) = TreeOf(heap, h_root) => CLVMTree_cached_sha256_treehash(i) = h_result

C12_Witness == d_status = "ok" /\ h_status = "returned" /\ blob = <<255, 255, 0, 1, 128>> /\ h_root = Len(heap) /\ CLVMTree_cached_sha256_treehash(0) = h_result /\ h_result # None

(***************************************************************************)
(* casts.py: integers as atoms.  Python integers are unbounded; the model  *)
(* stays below 2^31 in absolute value.                                     *)
(***************************************************************************)
Abs(v) == IF v < 0 THEN -v ELSE v

\* int.bit_length()
RECURSIVE bit_length_nat(_)
bit_length_nat(n) == IF n = 0 THEN 0 ELSE 1 + bit_length_nat(n \div 2)

bit_length(v) == bit_length_nat(Abs(v))

\* v >> (8 * k), rounding down.
RECURSIVE Shr8(_, _)
Shr8(v, k) == IF k = 0 THEN v ELSE Shr8(v \div 256, k - 1)

\* The low n bytes of v in two's complement, most significant first.
RECURSIVE twos_bytes(_, _)
twos_bytes(v, n) == IF n = 0 THEN <<>> ELSE Append(twos_bytes(v \div 256, n - 1), v % 256)

\* int.to_bytes(byte_count, "big", signed=True): OverflowError unless v fits.
to_bytes_signed(v, byte_count) == IF byte_count > 0 /\ Shr8(v, byte_count - 1) \in (-128)..127 THEN Ok(twos_bytes(v, byte_count)) ELSE Raise("OverflowError")

\* int.from_bytes(blob, "big", signed=True) of a non-empty blob.
RECURSIVE from_bytes_signed(_)
from_bytes_signed(b) == IF Len(b) = 1 THEN (IF b[1] >= 128 THEN b[1] - 256 ELSE b[1]) ELSE 256 * from_bytes_signed(Front(b)) + Last(b)

int_from_bytes(b) == LET size == Len(b)
        IN  IF size = 0 THEN 0 ELSE from_bytes_signed(b)

\* The loop that drops the leading bytes that are not needed.
RECURSIVE strip_leading(_)
strip_leading(r) == IF Len(r) > 1 /\ r[1] = (IF BitAnd(r[2], 128) # 0 THEN 255 ELSE 0) THEN strip_leading(Tail(r)) ELSE r

\* int_to_bytes without the loop that drops the unneeded leading bytes.
int_to_bytes_no_strip(v) == IF v = 0 THEN Ok(<<>>) ELSE to_bytes_signed(v, (bit_length(v) + 8) \div 8)

\* int_to_bytes with byte_count = (bit_length + 7) // 8, no room for the sign.
int_to_bytes_short_count(v) == IF v = 0 THEN Ok(<<>>)
        ELSE LET byte_count == (bit_length(v) + 7) \div 8
                 r == to_bytes_signed(v, byte_count)
             IN  IF r.err # "none" THEN r ELSE Ok(strip_leading(r.bytes))

int_to_bytes(v) == IF v = 0 THEN Ok(<<>>)
        ELSE LET byte_count == (bit_length(v) + 8) \div 8
                 r == to_bytes_signed(v, byte_count)
             IN  IF r.err # "none" THEN r ELSE Ok(strip_leading(r.bytes))

(***************************************************************************)
(* Calls of the casts and of the atom encoders, one function at a time.    *)
(* A call takes the input, or the result of the call before it.            *)
(***************************************************************************)
Call(op, arg, ret) == [op |-> op, arg |-> arg, ret |-> ret]

\* What the next call of kind k is given, if such a call can be made.
NextArgIs(k) == IF cast_log = <<>> THEN cast_input.kind = k
        ELSE /\ Len(cast_log) < 2
             /\ \/ k = "atom" /\ Last(cast_log).op = "int_to_bytes" /\ Last(cast_log).ret.err = "none"
                \/ k = "int" /\ Last(cast_log).op = "int_from_bytes"

NextArg == IF cast_log = <<>> THEN cast_input.value
        ELSE IF Last(cast_log).op = "int_to_bytes" THEN Last(cast_log).ret.bytes ELSE Last(cast_log).ret

int_to_bytes_call ==
        /\ NextArgIs("int")
        /\ cast_log' = Append(cast_log, Call("int_to_bytes", NextArg, int_to_bytes(NextArg)))
        /\ UNCHANGED cast_input
        /\ UNCHANGED <<parseVars, hashVars, convVars>>

int_from_bytes_call ==
        /\ NextArgIs("atom")
        /\ cast_log' = Append(cast_log, Call("int_from_bytes", NextArg, int_from_bytes(NextArg)))
        /\ UNCHANGED cast_input
        /\ UNCHANGED <<parseVars, hashVars, convVars>>

atom_to_byte_iterator_call ==
        /\ cast_log = <<>> /\ cast_input.kind = "blob"
        /\ cast_log' = <<Call("atom_to_byte_iterator", cast_input.value, atom_to_byte_iterator(cast_input.value))>>
        /\ UNCHANGED cast_input
        /\ UNCHANGED <<parseVars, hashVars, convVars>>

\* size_blob_for_blob of a blob of which only the length is given, as for
\* the LargeAtom of test_serialize.py.
size_blob_for_blob_call ==
        /\ cast_log = <<>> /\ cast_input.kind = "len"
        /\ cast_log' = <<Call("size_blob_for_blob", cast_input.value, size_blob_for_size(cast_input.value))>>
        /\ UNCHANGED cast_input
        /\ UNCHANGED <<parseVars, hashVars, convVars>>

RECURSIVE Pow2(_)
Pow2(n) == IF n = 0 THEN 1 ELSE 2 * Pow2(n - 1)

IntInputs == ((-300)..300) \cup {s * (Pow2(k) + d) : s \in {-1, 1}, k \in 8..MaxIntBits, d \in (-2)..2}

CastAtoms == SeqsUpTo({0, 1, 127, 128, 255}, MaxCastLen)

BlobInputs == SeqsUpTo({0, 127, 128, 255}, 2) \cup {Repeat(32, n) : n \in {LongAtomLen - 2, LongAtomLen - 1, LongAtomLen, LongAtomLen + 1}}

LenInputs == {BigOfInt(n) : n \in {0, 1, 2, 63, 64, 65, 255, 256, 8191, 8192, 65536, 1048575, 1048576, 134217727, 134217728}} \cup {<<1, 0, 0, 0, 0>>, <<3, 255, 255, 255, 255>>, <<4, 0, 0, 0, 0>>, <<4, 0, 0, 0, 1>>, <<1, 0, 0, 0, 0, 0>>}

InitCast ==
        /\ \/ \E v \in IntInputs : cast_input = [kind |-> "int", value |-> v]
           \/ \E a \in CastAtoms : cast_input = [kind |-> "atom", value |-> a]
           \/ \E a \in BlobInputs : cast_input = [kind |-> "blob", value |-> a]
           \/ \E n \in LenInputs : cast_input = [kind |-> "len", value |-> n]
        /\ cast_log = <<>>
        /\ ParseIdle /\ HashIdle /\ ConvIdle

NextCast ==
        \/ int_to_bytes_call
        \/ int_from_bytes_call
        \/ atom_to_byte_iterator_call
        \/ size_blob_for_blob_call

SpecCast == InitCast /\ [][NextCast]_vars

\* The k-byte size prefix holds 7k - 1 length bits: 6, 13, 20, 27, 34.
\* PrefixLimit(k) is 2^(7k - 1) and PrefixMarker(k) the k leading one-bits.
PrefixLimit(k) == <<Pow2(7 - k)>> \o Repeat(0, k - 1)

PrefixMarker(k) == 256 - Pow2(8 - k)

FittingPrefixes(size) == {k \in 1..5 : BigLt(size, PrefixLimit(k))}

\* The shortest size prefix for a length, or "blob too long" when none fits.
ShortestPrefix(size, ret) == IF FittingPrefixes(size) = {} THEN ret.err = "blob too long"
        ELSE LET k == CHOOSE k \in FittingPrefixes(size) : \A j \in FittingPrefixes(size) : k <= j
             IN  /\ ret.err = "none"
                 /\ Len(ret.bytes) = k
                 /\ BigNorm(ret.bytes) = BigAdd(<<PrefixMarker(k)>> \o Repeat(0, k - 1), size)

(***************************************************************************)
(* C7: atom_to_byte_iterator emits 0x80 for the empty atom, the byte       *)
(* itself for a one-byte atom <= 0x7F, and otherwise the shortest of the   *)
(* 1- to 5-byte size prefixes able to hold the atom length (6, 13, 20, 27  *)
(* or 34 length bits) followed by the atom bytes; a length of 2^34 or more *)
(* raises ValueError.                                                      *)
(***************************************************************************)
C7_AtomEncoding == \A i \in DOMAIN cast_log :
        LET c == cast_log[i]
        IN  /\ c.op = "size_blob_for_blob" => ShortestPrefix(c.arg, c.ret)
            /\ c.op = "atom_to_byte_iterator" =>
                /\ c.ret.err = "none"
                /\ IF c.arg = <<>> THEN c.ret.bytes = <<128>>
                   ELSE IF Len(c.arg) = 1 /\ c.arg[1] <= 127 THEN c.ret.bytes = c.arg
                   ELSE \E n \in 1..Len(c.ret.bytes) :
                        /\ SubSeq(c.ret.bytes, n + 1, Len(c.ret.bytes)) = c.arg
                        /\ ShortestPrefix(BigOfInt(Len(c.arg)), Ok(SubSeq(c.ret.bytes, 1, n)))

C7_Witness == /\ cast_log # <<>>
        /\ \/ cast_log[1] = Call("size_blob_for_blob", <<3, 255, 255, 255, 255>>, Ok(<<251, 255, 255, 255, 255>>))
           \/ cast_log[1] = Call("size_blob_for_blob", <<4, 0, 0, 0, 1>>, Raise("blob too long"))
           \/ cast_log[1] = Call("atom_to_byte_iterator", Repeat(32, 64), Ok(<<192, 64>> \o Repeat(32, 64)))

(***************************************************************************)
(* C8: int_from_bytes(int_to_bytes(i)) = i for every integer i, and        *)
(* int_to_bytes(int_from_bytes(a)) = a for every atom a that is a minimal  *)
(* two's-complement encoding.                                              *)
(***************************************************************************)
IsMinimalEncoding(a) ==
        /\ a # <<0>>
        /\ ~(Len(a) >= 2 /\ a[1] = 0 /\ a[2] < 128)
        /\ ~(Len(a) >= 2 /\ a[1] = 255 /\ a[2] >= 128)

C8_IntRoundTrip ==
        /\ (cast_log # <<>> /\ cast_log[1].op = "int_to_bytes") => cast_log[1].ret.err = "none"
        /\ Len(cast_log) = 2 =>
            /\ cast_log[1].op = "int_to_bytes" => cast_log[2].ret = cast_log[1].arg
            /\ (cast_log[1].op = "int_from_bytes" /\ IsMinimalEncoding(cast_log[1].arg)) => cast_log[2].ret = Ok(cast_log[1].arg)

C8_Witness == /\ Len(cast_log) = 2
        /\ \/ cast_log[1].op = "int_to_bytes" /\ cast_log[1].arg = -32768 /\ cast_log[2].ret = -32768
           \/ cast_log[1].op = "int_from_bytes" /\ cast_log[1].arg = <<0, 128>> /\ cast_log[2].ret = Ok(<<0, 128>>)

\* The value of a byte string read as a big-endian two's-complement number.
RECURSIVE UnsignedValue(_)
UnsignedValue(a) == IF a = <<>> THEN 0 ELSE 256 * UnsignedValue(Front(a)) + Last(a)

TwosComplementValue(a) == IF a = <<>> THEN 0 ELSE (IF a[1] >= 128 THEN a[1] - 256 ELSE a[1]) * Pow2(8 * (Len(a) - 1)) + UnsignedValue(Tail(a))

(***************************************************************************)
(* C9: int_to_bytes(i) is the minimal big-endian two's-complement encoding *)
(* of i: empty for 0, and otherwise never beginning with 0x00 followed by  *)
(* a byte whose high bit is clear, nor with 0xFF followed by a byte whose  *)
(* high bit is set.                                                        *)
(***************************************************************************)
C9_MinimalEncoding == \A i \in DOMAIN cast_log : cast_log[i].op = "int_to_bytes" =>
        LET v == cast_log[i].arg
            r == cast_log[i].ret
        IN  /\ r.err = "none"
            /\ (r.bytes = <<>>) <=> (v = 0)
            /\ TwosComplementValue(r.bytes) = v
            /\ ~(Len(r.bytes) >= 2 /\ r.bytes[1] = 0 /\ r.bytes[2] < 128)
            /\ ~(Len(r.bytes) >= 2 /\ r.bytes[1] = 255 /\ r.bytes[2] >= 128)

C9_Witness == /\ cast_log # <<>>
        /\ \/ cast_log[1] = Call("int_to_bytes", -128, Ok(<<128>>))
           \/ cast_log[1] = Call("int_to_bytes", 128, Ok(<<0, 128>>))
           \/ cast_log[1] = Call("int_to_bytes", -129, Ok(<<255, 127>>))

(***************************************************************************)
(* Running a program.  The evaluator itself, run_serialized_program, is    *)
(* native code; it is modelled after its specification and the runs of    *)
(* tests/test_program.py, for the operators q, a, f, r, c, x and + and for *)
(* paths, as a function from the two serialized trees and max_cost to      *)
(* either a cost and a result node or an error message and a payload node. *)
(* The cost counts the Eval and Apply operations performed.                *)
(***************************************************************************)
NULL == <<>>

ONE == <<1>>

Q_KW == <<1>>

A_KW == <<2>>

C_KW == <<4>>

F_KW == <<5>>

R_KW == <<6>>

X_KW == <<8>>

\* The opcode of +, as in ff10ff02ff0580.
ADD_KW == <<16>>

Nil == Atom(NULL)

\* The nil-terminated list of the trees in items.
RECURSIVE ListOf(_)
ListOf(items) == IF items = <<>> THEN Nil ELSE Pair(items[1], ListOf(Tail(items)))

EvalOk(cost, node) == [err |-> "none", cost |-> cost, node |-> node]

EvalErr(msg, node) == [err |-> msg, cost |-> 0, node |-> node]

RECURSIVE PathValue(_)
PathValue(a) == IF a = <<>> THEN 0 ELSE 256 * PathValue(Front(a)) + Last(a)

\* The bits of a path below its top set bit, least significant first: the
\* order in which (+ 2 5) on (50 60) reads 5 as the first of the rest.
RECURSIVE PathBits(_)
PathBits(v) == IF v <= 1 THEN <<>> ELSE <<v % 2>> \o PathBits(v \div 2)

\* One step per bit: first on 0, rest on 1.
RECURSIVE traverse(_, _, _)
traverse(env, bits, path) == IF bits = <<>> THEN EvalOk(1, env)
        ELSE IF IsAtom(env) THEN EvalErr("path into atom", Atom(path))
        ELSE traverse(env.pair[bits[1] + 1], Tail(bits), path)

\* The sum of the integers the atoms in args encode.
RECURSIVE SumOf(_)
SumOf(args) == IF args = <<>> THEN 0 ELSE int_from_bytes(args[1].atom) + SumOf(Tail(args))

\* The handler of operator op applied to the evaluated arguments.
apply_op(op, args) == IF op = X_KW THEN EvalErr("clvm raise", ListOf(args))
        ELSE IF op = C_KW THEN (IF Len(args) = 2 THEN EvalOk(1, Pair(args[1], args[2])) ELSE EvalErr("c takes exactly 2 arguments", ListOf(args)))
        ELSE IF op = F_KW THEN (IF Len(args) # 1 THEN EvalErr("f takes exactly 1 argument", ListOf(args))
                                ELSE IF IsAtom(args[1]) THEN EvalErr("first of non-cons", args[1]) ELSE EvalOk(1, args[1].pair[1]))
        ELSE IF op = R_KW THEN (IF Len(args) # 1 THEN EvalErr("r takes exactly 1 argument", ListOf(args))
                                ELSE IF IsAtom(args[1]) THEN EvalErr("rest of non-cons", args[1]) ELSE EvalOk(1, args[1].pair[2]))
        ELSE IF op = ADD_KW THEN (IF \E k \in DOMAIN args : IsPair(args[k])
                                  THEN EvalErr("+ requires int args", args[CHOOSE k \in DOMAIN args : IsPair(args[k]) /\ \A j \in 1..(k - 1) : IsAtom(args[j])])
                                  ELSE EvalOk(1, Atom(int_to_bytes(SumOf(args)).bytes)))
        ELSE EvalErr("unimplemented operator", Atom(op))

RECURSIVE eval(_, _)
RECURSIVE eval_args(_, _, _, _)
\* Evaluates the operands in rest; vals and cost are those so far.
eval_args(rest, env, vals, cost) == IF rest = Nil THEN [err |-> "none", cost |-> cost, vals |-> vals, node |-> Nil]
        ELSE IF IsAtom(rest) THEN [err |-> "bad operand list", cost |-> 0, vals |-> <<>>, node |-> rest]
        ELSE LET v == eval(rest.pair[1], env)
             IN  IF v.err # "none" THEN [err |-> v.err, cost |-> 0, vals |-> <<>>, node |-> v.node]
                 ELSE eval_args(rest.pair[2], env, Append(vals, v.node), cost + v.cost)

eval(node, env) == IF IsAtom(node) THEN (IF PathValue(node.atom) = 0 THEN EvalOk(1, Nil) ELSE traverse(env, PathBits(PathValue(node.atom)), node.atom))
        ELSE LET op == node.pair[1]
                 rest == node.pair[2]
             IN  IF IsPair(op) THEN EvalErr("unimplemented operator", op)
                 ELSE IF op.atom = Q_KW THEN EvalOk(1, rest)
                 ELSE IF op.atom = A_KW
                 THEN LET a == eval_args(rest, env, <<>>, 1)
                      IN  IF a.err # "none" THEN EvalErr(a.err, a.node)
                          ELSE IF Len(a.vals) # 2 THEN EvalErr("apply requires exactly 2 parameters", ListOf(a.vals))
                          ELSE LET r == eval(a.vals[1], a.vals[2])
                               IN  IF r.err # "none" THEN r ELSE EvalOk(a.cost + r.cost, r.node)
                 ELSE LET a == eval_args(rest, env, <<>>, 1)
                      IN  IF a.err # "none" THEN EvalErr(a.err, a.node)
                          ELSE LET r == apply_op(op.atom, a.vals)
                               IN  IF r.err # "none" THEN r ELSE EvalOk(a.cost + r.cost, r.node)

FOO == <<102, 111, 111>>

BAR == <<98, 97, 114>>

Quote(t) == Pair(Atom(Q_KW), t)

\* (x (q . foo) (q . bar)), the program of test_run_exception.
RaiseFooBar == ListOf(<<Atom(X_KW), Quote(Atom(FOO)), Quote(Atom(BAR))>>)

\* (+ 2 5), the program of test_simple_run.
AddTwoFive == ListOf(<<Atom(ADD_KW), Atom(<<2>>), Atom(<<5>>)>>)

RunPrograms == {RaiseFooBar, AddTwoFive, ListOf(<<Atom(ADD_KW)>>), ListOf(<<Atom(ADD_KW), Atom(<<1>>), Atom(<<2>>)>>),
                ListOf(<<Atom(A_KW), Quote(Atom(<<1>>)), Atom(<<1>>)>>), ListOf(<<Atom(A_KW), Quote(AddTwoFive), Atom(<<3>>)>>),
                ListOf(<<Atom(A_KW), Atom(<<1>>)>>), Atom(<<0>>), Nil, Atom(<<1>>), Atom(<<2>>), Atom(<<3>>), Atom(<<5>>),
                Quote(Atom(FOO)), Quote(ListOf(<<Atom(<<1>>), Atom(<<2>>)>>)),
                ListOf(<<Atom(F_KW), Atom(<<1>>)>>), ListOf(<<Atom(R_KW), Atom(<<1>>)>>),
                ListOf(<<Atom(C_KW), Atom(<<2>>), Atom(<<3>>)>>), ListOf(<<Atom(C_KW), Atom(<<1>>)>>),
                ListOf(<<Atom(X_KW)>>), ListOf(<<Atom(X_KW), Atom(<<1>>)>>),
                ListOf(<<Atom(<<9>>), Atom(<<1>>)>>), Pair(Atom(C_KW), Pair(Atom(<<2>>), Atom(<<3>>)))}

RunArgs == {RaiseFooBar, Nil, Atom(FOO), Pair(Atom(FOO), Atom(BAR)), ListOf(<<Atom(<<50>>), Atom(<<60>>)>>),
            Pair(Atom(<<7>>), ListOf(<<Atom(<<50>>), Atom(<<60>>)>>))}

MaxCosts == {0, 2, 100}

\* The tree whose serialization begins at offset pos of b, and where it ends.
RECURSIVE TreeAtOffset(_, _)
TreeAtOffset(b, pos) ==
        IF pos >= Len(b) THEN [ok |-> FALSE]
        ELSE IF b[pos + 1] = CONS_BOX_MARKER
        THEN LET l == TreeAtOffset(b, pos + 1)
             IN  IF ~l.ok THEN [ok |-> FALSE]
                 ELSE LET r == TreeAtOffset(b, l.end)
                      IN  IF ~r.ok THEN [ok |-> FALSE]
                          ELSE [ok |-> TRUE, tree |-> Pair(l.tree, r.tree), end |-> r.end]
        ELSE LET a == _atom_size_from_cursor(b, pos)
             IN  IF a.err # "none" THEN [ok |-> FALSE]
                 ELSE [ok |-> TRUE, tree |-> Atom(Slice(b, pos + a.atom_offset, a.new_cursor)), end |-> a.new_cursor]

\* The native deserializer: the node whose serialization b is.
node_from_bytes(b) == TreeAtOffset(b, 0)

\* The native call: an error message or a cost, and a node.
run_serialized_program(prog_bytes, args_bytes, max_cost, flags) ==
        LET program == node_from_bytes(prog_bytes)
            args == node_from_bytes(args_bytes)
        IN  IF ~program.ok \/ ~args.ok THEN EvalErr("bad encoding", Nil)
            ELSE LET r == eval(program.tree, args.tree)
                 IN  IF r.err = "none" /\ r.cost > max_cost THEN EvalErr("cost exceeded", Nil) ELSE r

Returned(cost, result) == [exc |-> "none", cost |-> cost, result |-> result]

EvalError(message, sexp) == [exc |-> "EvalError", args |-> <<message>>, _sexp |-> sexp]

\* Program.to of a value that is a tree already.
Program_to(v) == Program_wrap(v)

\* Program.run_with_cost returning the pair whatever its first element is.
run_with_cost_unchecked(self, args, max_cost) == LET n == run_serialized_program(sexp_to_bytes(self).bytes, sexp_to_bytes(Program_to(args)).bytes, max_cost, 0)
        IN  Returned(n.cost, Program_wrap(n.node))

\* Program.run_with_cost; isinstance(cost, str) is n.err # "none".
run_with_cost(self, args, max_cost) == LET prog_bytes == sexp_to_bytes(self).bytes
            args_bytes == sexp_to_bytes(Program_to(args)).bytes
            n == run_serialized_program(prog_bytes, args_bytes, max_cost, 0)
            r == Program_wrap(n.node)
        IN  IF n.err # "none" THEN EvalError(n.err, r) ELSE Returned(n.cost, r)

\* run_program of run_program.py.
run_program(program, args, max_cost, flags) == LET program_blob == sexp_to_bytes(program).bytes
            args_blob == sexp_to_bytes(args).bytes
            n == run_serialized_program(program_blob, args_blob, max_cost, flags)
        IN  IF n.err # "none" THEN EvalError(n.err, n.node) ELSE Returned(n.cost, n.node)

\* No call of op is in the log yet.
NotCalled(op) == \A i \in DOMAIN cast_log : cast_log[i].op # op

run_with_cost_call ==
        /\ cast_input.kind = "run" /\ NotCalled("run_with_cost")
        /\ LET v == cast_input.value
           IN  cast_log' = Append(cast_log, Call("run_with_cost", v, run_with_cost(v.program, v.args, v.max_cost)))
        /\ UNCHANGED cast_input
        /\ UNCHANGED <<parseVars, hashVars, convVars>>

run_program_call ==
        /\ cast_input.kind = "run" /\ NotCalled("run_program")
        /\ LET v == cast_input.value
           IN  cast_log' = Append(cast_log, Call("run_program", v, run_program(v.program, v.args, v.max_cost, 0)))
        /\ UNCHANGED cast_input
        /\ UNCHANGED <<parseVars, hashVars, convVars>>

InitRun ==
        /\ \E p \in RunPrograms, a \in RunArgs, c \in MaxCosts :
                cast_input = [kind |-> "run", value |-> [program |-> p, args |-> a, max_cost |-> c]]
        /\ cast_log = <<>>
        /\ ParseIdle /\ HashIdle /\ ConvIdle

NextRun ==
        \/ run_with_cost_call
        \/ run_program_call

SpecRun == InitRun /\ [][NextRun]_vars

(***************************************************************************)
(* C13: Program.run_with_cost and run_program either return (cost, result) *)
(* with an integer cost, or raise EvalError carrying the native error      *)
(* message and the payload node; they never return a result when the       *)
(* native call reported an error.  For (x (q . foo) (q . bar)) the message *)
(* is 'clvm raise' and the payload is the list ("foo" "bar"), when         *)
(* max_cost leaves room for the run.                                       *)
(***************************************************************************)
C13_CostOrEvalError == \A i \in DOMAIN cast_log : cast_log[i].op \in {"run_with_cost", "run_program"} =>
        LET v == cast_log[i].arg
            ret == cast_log[i].ret
            n == run_serialized_program(sexp_to_bytes(v.program).bytes, sexp_to_bytes(v.args).bytes, v.max_cost, 0)
        IN  /\ ret.exc \in {"none", "EvalError"}
            /\ n.err # "none" => ret = EvalError(n.err, n.node)
            /\ n.err = "none" => (ret.exc = "none" /\ ret.cost \in Nat /\ ret.result = n.node)
            /\ (v.program = RaiseFooBar /\ v.max_cost = 100) => ret = EvalError("clvm raise", ListOf(<<Atom(FOO), Atom(BAR)>>))

C13_Witness == Len(cast_log) = 2 /\ cast_log[1].arg = [program |-> RaiseFooBar, args |-> RaiseFooBar, max_cost |-> 100] /\ cast_log[1].op = "run_with_cost" /\ cast_log[1].ret.exc = "EvalError" /\ cast_log[2].ret.args = <<"clvm raise">>

(***************************************************************************)
(* Paths, at.py and Program.at.  A position is a sequence of one-letter    *)
(* strings; Python's None is PyNone; a raised ValueError is AtError.       *)
(***************************************************************************)
PyNone == NoTree

AtError == [raise |-> "ValueError"]

\* str.lower on the letters of the positions.
lower(c) == CASE c = "F" -> "f" [] c = "R" -> "r" [] c = "Q" -> "q" [] OTHER -> c

Program_first(self) == IF IsPair(self) THEN self.pair[1] ELSE PyNone

Program_rest(self) == IF IsPair(self) THEN self.pair[2] ELSE PyNone

\* Program.at testing the letter before it looks whether v is None.
RECURSIVE Program_at_letter_first(_, _)
Program_at_letter_first(v, position) == IF position = <<>> THEN v
        ELSE LET c == lower(position[1])
             IN  IF c \notin {"f", "r"} THEN AtError
                 ELSE IF v = PyNone THEN v
                 ELSE IF c = "f" THEN Program_at_letter_first(Program_first(v), Tail(position))
                 ELSE Program_at_letter_first(Program_rest(v), Tail(position))

\* Program.at: the loop over position.lower(), v the node reached so far.
RECURSIVE Program_at(_, _)
Program_at(v, position) == IF position = <<>> THEN v
        ELSE LET c == lower(position[1])
             IN  IF v = PyNone THEN v
                 ELSE IF c = "f" THEN Program_at(Program_first(v), Tail(position))
                 ELSE IF c = "r" THEN Program_at(Program_rest(v), Tail(position))
                 ELSE AtError

\* at of at.py looping over position as it is given, not over position.lower().
RECURSIVE at_no_lower(_, _)
at_no_lower(v, position) == IF position = <<>> THEN v
        ELSE LET c == position[1]
             IN  IF ~IsPair(v) THEN PyNone
                 ELSE IF c \notin {"r", "f"} THEN AtError
                 ELSE at_no_lower(v.pair[IF c = "f" THEN 1 ELSE 2], Tail(position))

\* at of at.py: the loop over position.lower(), v the node reached so far.
RECURSIVE at(_, _)
at(v, position) == IF position = <<>> THEN v
        ELSE LET c == lower(position[1])
             IN  IF ~IsPair(v) THEN PyNone
                 ELSE IF c \notin {"r", "f"} THEN AtError
                 ELSE at(v.pair[IF c = "f" THEN 1 ELSE 2], Tail(position))

\* Program.__eq__: the loop over the stack of pairs (p1, p2) still to compare.
RECURSIVE Program_eq_loop(_)
Program_eq_loop(stack) == IF stack = <<>> THEN TRUE
        ELSE LET p1 == Last(stack)[1]
                 p2 == Last(stack)[2]
             IN  IF IsPair(p1)
                 THEN IF IsAtom(p2) THEN FALSE
                      ELSE Program_eq_loop(Front(stack) \o <<<<p1.pair[2], p2.pair[2]>>, <<p1.pair[1], p2.pair[1]>>>>)
                 ELSE IF IsPair(p2) \/ p1.atom # p2.atom THEN FALSE
                      ELSE Program_eq_loop(Front(stack))

Program_eq(self, other) == Program_eq_loop(<<<<self, Program_to(other)>>>>)

\* x != other, where x is a Program or None and other is an atom's bytes.
Program_ne(x, other) == IF x = PyNone THEN TRUE ELSE ~Program_eq(x, Atom(other))

(***************************************************************************)
(* Program.curry and Program.uncurry.                                      *)
(***************************************************************************)
\* The loop of curry without reversed(): the first argument is wrapped first.
RECURSIVE curry_fixed_args_forward(_)
curry_fixed_args_forward(args) == IF args = <<>> THEN Atom(int_to_bytes(1).bytes)
        ELSE ListOf(<<Atom(int_to_bytes(4).bytes), Pair(Atom(int_to_bytes(1).bytes), Last(args)),
                      curry_fixed_args_forward(Front(args))>>)

\* fixed_args after the loop over reversed(args), starting from 1.
RECURSIVE curry_fixed_args(_)
curry_fixed_args(args) == IF args = <<>> THEN Atom(int_to_bytes(1).bytes)
        ELSE ListOf(<<Atom(int_to_bytes(4).bytes), Pair(Atom(int_to_bytes(1).bytes), args[1]),
                      curry_fixed_args(Tail(args))>>)

Program_curry(self, args) ==
        ListOf(<<Atom(int_to_bytes(2).bytes), Pair(Atom(int_to_bytes(1).bytes), self), curry_fixed_args(args)>>)

\* What uncurry returns: (fn, args), args being None when none is TRUE.
Uncurried(fn, args) == [fn |-> fn, args |-> args, none |-> FALSE]

NotCurried(self) == [fn |-> self, args |-> <<>>, none |-> TRUE]

\* The while loop of Program.uncurry: core the rest of the chain, core_items the arguments found.
RECURSIVE Program_uncurry_loop(_, _, _, _)
Program_uncurry_loop(self, uncurried_function, core, core_items) ==
        IF ~Program_ne(core, ONE) THEN Uncurried(uncurried_function, core_items)
        ELSE IF core = PyNone THEN NotCurried(self)
        ELSE IF \/ Program_ne(Program_at(core, <<"f">>), C_KW)
                \/ Program_ne(Program_at(core, <<"r", "f", "f">>), Q_KW)
                \/ Program_ne(Program_at(core, <<"r", "r", "r">>), NULL)
             THEN NotCurried(self)
        ELSE Program_uncurry_loop(self, uncurried_function, Program_at(core, <<"r", "r", "f">>),
                                  Append(core_items, Program_at(core, <<"r", "f", "r">>)))

\* Program.uncurry with the top-level test of the trailing NULL left out.
Program_uncurry_no_tail_test(self) ==
        IF \/ Program_ne(Program_at(self, <<"f">>), A_KW)
           \/ Program_ne(Program_at(self, <<"r", "f", "f">>), Q_KW)
           \/ Program_at(self, <<"r", "r">>) = PyNone
        THEN NotCurried(self)
        ELSE Program_uncurry_loop(self, Program_at(self, <<"r", "f", "r">>),
                                  Program_at(self, <<"r", "r", "f">>), <<>>)

Program_uncurry(self) ==
        IF \/ Program_ne(Program_at(self, <<"f">>), A_KW)
           \/ Program_ne(Program_at(self, <<"r", "f", "f">>), Q_KW)
           \/ Program_ne(Program_at(self, <<"r", "r", "r">>), NULL)
        THEN NotCurried(self)
        ELSE Program_uncurry_loop(self, Program_at(self, <<"r", "f", "r">>),
                                  Program_at(self, <<"r", "r", "f">>), <<>>)

AssertionError == [raise |-> "AssertionError"]

\* The test uncurry.py makes of a core before it takes an item from it.
NotAtCurryItem(core) ==
        \/ Program_ne(at(core, <<"f">>), C_KW)
        \/ Program_ne(at(core, <<"r", "f", "f">>), Q_KW)
        \/ Program_ne(at(core, <<"r", "r", "r">>), NULL)

\* uncurry of uncurry.py, given a Program: the same tests through at of at.py.
RECURSIVE uncurry_loop(_, _, _, _)
uncurry_loop(sexp, uncurried_function, core, core_items) ==
        IF ~Program_ne(core, ONE) THEN Uncurried(uncurried_function, core_items)
        ELSE IF core = PyNone \/ (~NotAtCurryItem(core) /\ at(core, <<"r", "f", "r">>) = PyNone)
             THEN AssertionError
        ELSE IF NotAtCurryItem(core) THEN NotCurried(sexp)
        ELSE uncurry_loop(sexp, uncurried_function, at(core, <<"r", "r", "f">>),
                          Append(core_items, at(core, <<"r", "f", "r">>)))

uncurry(sexp) ==
        IF \/ Program_ne(at(sexp, <<"f">>), A_KW)
           \/ Program_ne(at(sexp, <<"r", "f", "f">>), Q_KW)
           \/ Program_ne(at(sexp, <<"r", "r", "r">>), NULL)
        THEN NotCurried(sexp)
        ELSE IF at(sexp, <<"r", "f", "r">>) = PyNone THEN AssertionError
        ELSE uncurry_loop(sexp, at(sexp, <<"r", "f", "r">>), at(sexp, <<"r", "r", "f">>), <<>>)

MaxArgs == 2

PLUS == Atom(<<16>>)

\* (+ 2 5), the program of the tests, and the programs curried beside it.
CurryMods == {ListOf(<<PLUS, Atom(<<2>>), Atom(<<5>>)>>), PLUS, Nil, Atom(ONE),
              Program_curry(PLUS, <<Atom(ONE)>>)}

CurryArgValues == {Atom(ONE), Nil, Atom(FOO), Pair(Atom(FOO), Atom(BAR)), Program_curry(PLUS, <<>>)}

Garbage == Pair(Atom(Q_KW), Atom(<<19, 55>>))

\* The list (op (q . x) next) followed by the elements of tail.
CurryShape(op, q, x, next, tail) == ListOf(<<Atom(op), Pair(Atom(q), x), next>> \o tail)

CoreShapes == {Atom(ONE), Nil, Pair(Atom(Q_KW), Atom(ONE))}
        \cup {CurryShape(op, q, Atom(ONE), next, tail) :
                op \in {C_KW, A_KW}, q \in {Q_KW, NULL}, next \in {Atom(ONE), Nil, Pair(Atom(Q_KW), Atom(ONE))},
                tail \in {<<>>, <<Garbage>>}}

\* Programs close to a curry: wrong operators, unquoted mod, trailing elements, bad terminators.
NearCurries == {CurryShape(op, q, Atom(ONE), core, tail) :
                op \in {A_KW, C_KW}, q \in {Q_KW, NULL}, core \in CoreShapes, tail \in {<<>>, <<Garbage>>}}
        \cup {ListOf(<<Atom(A_KW), Atom(ONE), core>>) : core \in CoreShapes}
        \cup {Program_curry(m, <<a>>) : m \in CurryMods, a \in CurryArgValues}

UncurryInputs == NearCurries \cup CurryMods \cup CurryArgValues

\* The program uncurry is called on: the curried program, or the program given.
\* What the call of curry returned.
Curried == cast_log[CHOOSE i \in DOMAIN cast_log : cast_log[i].op = "curry"].ret

UncurryReceiver == IF cast_input.kind = "curry" THEN Curried ELSE cast_input.value

\* The objects of the trees put after those of h, and the places of their roots.
RECURSIVE AddTrees(_, _, _)
AddTrees(h, trees, roots) == IF trees = <<>> THEN [heap |-> h, roots |-> roots]
        ELSE LET h1 == h \o Shift(HeapOf(trees[1]), Len(h))
             IN  AddTrees(h1, Tail(trees), Append(roots, Len(h1)))

\* The objects a call of curry finds: those of the mod self, then those of
\* the arguments when the arguments are Programs.  An argument that is a
\* plain Python value (an int, bytes, a tuple) has no object yet.
CurryInput(p, args, args_are_programs) ==
        [kind |-> "curry", value |-> [self |-> p, args |-> args],
         args_are_programs |-> args_are_programs, puzzle |-> 0, hashing |-> "none"]

InputObjects == IF cast_input.kind # "curry" THEN [heap |-> <<>>, roots |-> <<>>]
        ELSE LET v == cast_input.value
             IN  IF cast_input.args_are_programs THEN AddTrees(HeapOf(v.self), v.args, <<>>)
                 ELSE [heap |-> HeapOf(v.self), roots |-> <<>>]

ModObj == Len(HeapOf(cast_input.value.self))

\* The hashes [Program.to(_).tree_hash() for _ in args] has collected.
ArgHashes == LET calls == SelectSeq(cast_log, LAMBDA c : c.op = "arg.tree_hash")
        IN  [k \in DOMAIN calls |-> calls[k].ret]

\* The list comprehension is one statement: no other call begins between
\* its first tree_hash and its last.
BetweenStatements == h_status # "running" /\ Len(ArgHashes) \in {0, Len(cast_input.value.args)}

\* to_clvm_object on [op, (1, x), next] where x and next are objects: the
\* atoms op, 1 and the terminator, and the four pairs, the list last.
NewCurryItem(h, op, x, next) == LET n == Len(h)
        IN  h \o <<AtomObj(int_to_bytes(op).bytes, FALSE), AtomObj(int_to_bytes(1).bytes, FALSE), PairObj(n + 2, x, FALSE),
                   AtomObj(NULL, FALSE), PairObj(next, n + 4, FALSE), PairObj(n + 3, n + 5, FALSE),
                   PairObj(n + 1, n + 6, FALSE)>>

\* The objects of fixed_args, the arguments being the objects arg_objs.
RECURSIVE NewFixedArgs(_, _)
NewFixedArgs(h, arg_objs) == IF arg_objs = <<>> THEN Append(h, AtomObj(int_to_bytes(1).bytes, FALSE))
        ELSE LET h1 == NewFixedArgs(h, Tail(arg_objs))
             IN  NewCurryItem(h1, 4, arg_objs[1], Len(h1))

\* self.to([2, (1, self), fixed_args]): new objects around the object of
\* self and the objects of the arguments, which are not copied.
NewCurried(h, self_obj, arg_objs) == LET h1 == NewFixedArgs(h, arg_objs)
        IN  NewCurryItem(h1, 2, self_obj, Len(h1))

Program_curry_call ==
        /\ cast_input.kind = "curry" /\ NotCalled("curry") /\ BetweenStatements
        /\ LET v == cast_input.value
               a == IF cast_input.args_are_programs THEN [heap |-> heap, roots |-> InputObjects.roots]
                    ELSE AddTrees(heap, v.args, <<>>)
           IN  /\ heap' = NewCurried(a.heap, ModObj, a.roots)
               /\ cast_input' = [cast_input EXCEPT !.puzzle = Len(heap')]
               /\ cast_log' = Append(cast_log, Call("curry", v, Program_curry(v.self, v.args)))
        /\ UNCHANGED <<h_op_stack, obj_stack, hash_stack, h_root, h_status, h_result, cache_hits, h_calls>>
        /\ UNCHANGED <<parseVars, convVars>>

Program_uncurry_call ==
        /\ cast_input.kind = "program" \/ (cast_input.kind = "curry" /\ ~NotCalled("curry"))
        /\ NotCalled("Program.uncurry")
        /\ cast_log' = Append(cast_log, Call("Program.uncurry", UncurryReceiver, Program_uncurry(UncurryReceiver)))
        /\ UNCHANGED cast_input
        /\ UNCHANGED <<parseVars, hashVars, convVars>>

uncurry_call ==
        /\ cast_input.kind = "program" \/ (cast_input.kind = "curry" /\ ~NotCalled("curry"))
        /\ NotCalled("uncurry")
        /\ cast_log' = Append(cast_log, Call("uncurry", UncurryReceiver, uncurry(UncurryReceiver)))
        /\ UNCHANGED cast_input
        /\ UNCHANGED <<parseVars, hashVars, convVars>>

\* No tree_hash has been called: the objects of the input hold no hash.
HashIdleOnInput ==
        /\ heap = InputObjects.heap /\ h_op_stack = <<>> /\ obj_stack = <<>> /\ hash_stack = <<>>
        /\ h_root = 0 /\ h_status = "idle" /\ h_result = None /\ cache_hits = 0 /\ h_calls = 0

InitCurry ==
        /\ \/ \E p \in CurryMods, args \in SeqsUpTo(CurryArgValues, MaxArgs), b \in BOOLEAN :
                cast_input = CurryInput(p, args, b)
           \/ \E p \in UncurryInputs : cast_input = [kind |-> "program", value |-> p]
        /\ cast_log = <<>>
        /\ ParseIdle /\ HashIdleOnInput /\ ConvIdle

NextCurry ==
        \/ Program_curry_call
        \/ Program_uncurry_call
        \/ uncurry_call

SpecCurry == InitCurry /\ [][NextCurry]_vars

(***************************************************************************)
(* C14: for every program p and arguments a1..an (n >= 0),                 *)
(* p.curry(a1, ..., an).uncurry() returns (f, [b1, ..., bn]) with f == p   *)
(* and bi == ai for every i, in the same order.                            *)
(***************************************************************************)
C14_CurryUncurry == \A i \in DOMAIN cast_log :
        (cast_input.kind = "curry" /\ cast_log[i].op = "Program.uncurry") =>
            LET v == cast_input.value
                ret == cast_log[i].ret
            IN  /\ cast_log[i].arg = Program_curry(v.self, v.args)
                /\ ~ret.none
                /\ Program_eq(ret.fn, v.self)
                /\ Len(ret.args) = Len(v.args)
                /\ \A j \in DOMAIN v.args : Program_eq(ret.args[j], v.args[j])

C14_Witness ==
        /\ cast_input.kind = "curry"
        /\ cast_input.value = [self |-> ListOf(<<PLUS, Atom(<<2>>), Atom(<<5>>)>>), args |-> <<Atom(FOO), Nil>>]
        /\ Len(cast_log) >= 2 /\ cast_log[2].op = "Program.uncurry"
        /\ cast_log[2].ret.args = <<Atom(FOO), Nil>>

RECURSIVE Subtrees(_)
Subtrees(t) == IF IsPair(t) THEN {t} \cup Subtrees(t.pair[1]) \cup Subtrees(t.pair[2]) ELSE {t}

\* core = 1 or (c (q . arg) core').
RECURSIVE IsCurryCore(_)
IsCurryCore(core) ==
        \/ core = Atom(<<1>>)
        \/ \E arg \in Subtrees(core), next \in Subtrees(core) :
                /\ core = ListOf(<<Atom(<<4>>), Pair(Atom(<<1>>), arg), next>>)
                /\ IsCurryCore(next)

\* t = (a (q . mod) core).
IsCurryForm(t) == \E mod \in Subtrees(t), core \in Subtrees(t) :
        /\ t = ListOf(<<Atom(<<2>>), Pair(Atom(<<1>>), mod), core>>)
        /\ IsCurryCore(core)

(***************************************************************************)
(* C15: Program.uncurry returns (self, None) for every program that is not *)
(* exactly of the form (a (q . mod) core) with core = 1 or                 *)
(* (c (q . arg) core'), including forms with extra trailing elements in    *)
(* the top-level list or in a core item and forms whose second element is  *)
(* not a quoted pair; for a curry of zero arguments it returns (mod, [])   *)
(* rather than (self, None).  It never raises.  uncurry of uncurry.py      *)
(* does the same on a Program.                                             *)
(***************************************************************************)
C15_UncurryNotCurried == \A i \in DOMAIN cast_log : cast_log[i].op \in {"Program.uncurry", "uncurry"} =>
        LET self == cast_log[i].arg
            ret == cast_log[i].ret
        IN  /\ "raise" \notin DOMAIN ret
            /\ ~IsCurryForm(self) => ret = NotCurried(self)
            /\ IsCurryForm(self) => ~ret.none
            /\ \A mod \in Subtrees(self) :
                    self = ListOf(<<Atom(<<2>>), Pair(Atom(<<1>>), mod), Atom(<<1>>)>>) => ret = Uncurried(mod, <<>>)

C15_Witness ==
        /\ cast_input = [kind |-> "program", value |-> ListOf(<<Atom(<<2>>), Pair(Atom(<<1>>), Atom(<<1>>)),
                ListOf(<<Atom(<<4>>), Pair(Atom(<<1>>), Atom(<<1>>)), Atom(<<1>>), Garbage>>)>>)]
        /\ Len(cast_log) = 2
        /\ cast_log[1].ret.none /\ cast_log[2].ret.none
        /\ cast_log[1].op = "Program.uncurry"

(***************************************************************************)
(* curry_and_treehash.py: the tree hash of a curried program out of the    *)
(* hashes of its parts.  shatree_atom and shatree_pair are the methods of  *)
(* CHIA_TREEHASHER.                                                        *)
(***************************************************************************)
CHIA_DIALECT == [NULL |-> NULL, ONE |-> ONE, Q_KW |-> Q_KW, A_KW |-> A_KW, C_KW |-> C_KW]

\* CurryTreehasher.__init__: the hashes it keeps.
CurryTreehasher(dialect) == [
        q_kw_treehash |-> shatree_atom(CHIA_TREEHASHER, dialect.Q_KW),
        c_kw_treehash |-> shatree_atom(CHIA_TREEHASHER, dialect.C_KW),
        a_kw_treehash |-> shatree_atom(CHIA_TREEHASHER, dialect.A_KW),
        null_treehash |-> shatree_atom(CHIA_TREEHASHER, dialect.NULL),
        one_treehash |-> shatree_atom(CHIA_TREEHASHER, <<1>>)]

CHIA_CURRY_TREEHASHER == CurryTreehasher(CHIA_DIALECT)

\* curried_values_tree_hash hashing the item after the inner values.
RECURSIVE curried_values_tree_hash_swapped(_, _)
curried_values_tree_hash_swapped(self, arguments) ==
        IF Len(arguments) = 0 THEN self.one_treehash
        ELSE LET inner_curried_values == curried_values_tree_hash_swapped(self, Tail(arguments))
             IN  shatree_pair(CHIA_TREEHASHER, self.c_kw_treehash,
                        shatree_pair(CHIA_TREEHASHER,
                                shatree_pair(CHIA_TREEHASHER, inner_curried_values, self.null_treehash),
                                shatree_pair(CHIA_TREEHASHER, self.q_kw_treehash, arguments[1])))

RECURSIVE curried_values_tree_hash(_, _)
curried_values_tree_hash(self, arguments) ==
        IF Len(arguments) = 0 THEN self.one_treehash
        ELSE LET inner_curried_values == curried_values_tree_hash(self, Tail(arguments))
             IN  shatree_pair(CHIA_TREEHASHER, self.c_kw_treehash,
                        shatree_pair(CHIA_TREEHASHER,
                                shatree_pair(CHIA_TREEHASHER, self.q_kw_treehash, arguments[1]),
                                shatree_pair(CHIA_TREEHASHER, inner_curried_values, self.null_treehash)))

\* A digest is 32 bytes long; any other byte string is told by its own length.
digest_len(b) == IF b # <<>> /\ b[1] >= 256 THEN 32 ELSE Len(b)

ValueError == [raise |-> "ValueError"]

curry_and_treehash(self, hash_of_quoted_mod_hash, hashed_arguments) ==
        IF \E k \in DOMAIN hashed_arguments : digest_len(hashed_arguments[k]) # 32 THEN ValueError
        ELSE LET curried_values == curried_values_tree_hash(self, hashed_arguments)
             IN  shatree_pair(CHIA_TREEHASHER, self.a_kw_treehash,
                        shatree_pair(CHIA_TREEHASHER, hash_of_quoted_mod_hash,
                                shatree_pair(CHIA_TREEHASHER, curried_values, self.null_treehash)))

calculate_hash_of_quoted_mod_hash(self, mod_hash) == shatree_pair(CHIA_TREEHASHER, self.q_kw_treehash, mod_hash)

\* Program.tree_hash as a value: what sha256_treehash returns on the objects of t.
Program_tree_hash(t) == H(HeapOf(t), Len(HeapOf(t)))

\* sha256_treehash(self) begins on the object obj of the heap h; hashing
\* names the receiver until the call returns.
Program_tree_hash_begin(h, obj, receiver) ==
        /\ cast_input.kind = "curry" /\ h_status \in {"idle", "returned"}
        /\ heap' = h
        /\ h_root' = obj
        /\ obj_stack' = <<obj>>
        /\ h_op_stack' = <<"handle_obj">>
        /\ hash_stack' = <<>>
        /\ h_status' = "running"
        /\ h_calls' = h_calls + 1
        /\ cast_input' = [cast_input EXCEPT !.hashing = receiver]
        /\ UNCHANGED <<h_result, cache_hits, cast_log>>
        /\ UNCHANGED <<parseVars, convVars>>

\* arbitrary_mod.tree_hash(), on the object of the mod.
mod_tree_hash_call ==
        /\ cast_input.kind = "curry" /\ NotCalled("mod.tree_hash") /\ BetweenStatements
        /\ Program_tree_hash_begin(heap, ModObj, "mod.tree_hash")

\* puzzle.tree_hash(), on the object curry returned: the objects of the mod
\* and of the Program arguments beneath it are the ones hashed elsewhere.
Program_tree_hash_call ==
        /\ cast_input.kind = "curry" /\ cast_input.puzzle # 0 /\ NotCalled("puzzle.tree_hash") /\ BetweenStatements
        /\ Program_tree_hash_begin(heap, cast_input.puzzle, "puzzle.tree_hash")

\* Program.to(arg).tree_hash() for the next argument: Program.to returns a
\* Program argument itself and makes new objects for any other value.
arg_tree_hash_call ==
        /\ cast_input.kind = "curry" /\ Len(ArgHashes) < Len(cast_input.value.args)
        /\ LET k == Len(ArgHashes) + 1
               a == IF cast_input.args_are_programs THEN [heap |-> heap, roots |-> <<InputObjects.roots[k]>>]
                    ELSE AddTrees(heap, <<cast_input.value.args[k]>>, <<>>)
           IN  Program_tree_hash_begin(a.heap, a.roots[1], "arg.tree_hash")

\* The loop of sha256_treehash has emptied op_stack: tree_hash returns
\* hash_stack[0] to its caller.
Program_tree_hash_return ==
        /\ cast_input.kind = "curry"
        /\ h_status = "running"
        /\ h_op_stack = <<>>
        /\ h_result' = hash_stack[1]
        /\ h_status' = "returned"
        /\ cast_log' = Append(cast_log, Call(cast_input.hashing, h_root, hash_stack[1]))
        /\ cast_input' = [cast_input EXCEPT !.hashing = "none"]
        /\ UNCHANGED <<heap, h_op_stack, obj_stack, hash_stack, h_root, cache_hits, h_calls>>
        /\ UNCHANGED <<parseVars, convVars>>

\* What a call logged under op returned.
ReturnOf(op) == cast_log[CHOOSE i \in DOMAIN cast_log : cast_log[i].op = op].ret

\* calculate_hash_of_quoted_mod_hash(arbitrary_mod_hash), then
\* curry_and_treehash(quoted_mod_hash, *hashed_args), on the hashes the
\* calls of tree_hash returned.
curry_and_treehash_call ==
        /\ cast_input.kind = "curry" /\ NotCalled("curry_and_treehash") /\ BetweenStatements
        /\ ~NotCalled("mod.tree_hash") /\ Len(ArgHashes) = Len(cast_input.value.args)
        /\ LET quoted_mod_hash == calculate_hash_of_quoted_mod_hash(CHIA_CURRY_TREEHASHER, ReturnOf("mod.tree_hash"))
               hashed_args == ArgHashes
           IN  cast_log' = Append(cast_log, Call("curry_and_treehash",
                        [hash_of_quoted_mod_hash |-> quoted_mod_hash, hashed_arguments |-> hashed_args],
                        curry_and_treehash(CHIA_CURRY_TREEHASHER, quoted_mod_hash, hashed_args)))
        /\ UNCHANGED cast_input
        /\ UNCHANGED <<parseVars, hashVars, convVars>>

\* The arguments of the hashed curries: atoms and a pair.
HashedArgValues == {Atom(ONE), Nil, Atom(FOO), Pair(Atom(FOO), Atom(BAR))}

InitCurryHash ==
        /\ \E p \in CurryMods, args \in SeqsUpTo(HashedArgValues, MaxArgs), b \in BOOLEAN :
                cast_input = CurryInput(p, args, b)
        /\ cast_log = <<>>
        /\ ParseIdle /\ HashIdleOnInput /\ ConvIdle

NextCurryHash ==
        \/ mod_tree_hash_call
        \/ Program_curry_call
        \/ Program_tree_hash_call
        \/ arg_tree_hash_call
        \/ curry_and_treehash_call
        \/ handle_obj
        \/ handle_pair
        \/ Program_tree_hash_return

SpecCurryHash == InitCurryHash /\ [][NextCurryHash]_vars

(***************************************************************************)
(* C16: for every mod and every argument list a1..an,                      *)
(* curry_and_treehash(H((q . mod)), H(a1), ..., H(an)) equals the tree     *)
(* hash of the program mod.curry(a1, ..., an), where H is the tree hash.   *)
(***************************************************************************)
C16_CurryAndTreehash == \A i \in DOMAIN cast_log :
        (cast_log[i].op = "curry_and_treehash" /\ ~NotCalled("puzzle.tree_hash")) =>
            LET v == cast_input.value
                call == cast_log[i]
            IN  /\ call.arg.hash_of_quoted_mod_hash = Program_tree_hash(Pair(Atom(<<1>>), v.self))
                /\ Len(call.arg.hashed_arguments) = Len(v.args)
                /\ \A k \in DOMAIN v.args : call.arg.hashed_arguments[k] = Program_tree_hash(v.args[k])
                /\ TreeOf(heap, cast_input.puzzle) = Program_curry(v.self, v.args)
                /\ call.ret = ReturnOf("puzzle.tree_hash")

\* The order of the test on Program arguments: the mod is hashed first, so
\* the walk of the puzzle finds its hash, and each argument's after it.
C16_Witness ==
        /\ cast_input.kind = "curry" /\ cast_input.args_are_programs
        /\ cast_input.value = [self |-> ListOf(<<PLUS, Atom(<<2>>), Atom(<<5>>)>>), args |-> <<Atom(FOO), Nil>>]
        /\ h_status = "returned" /\ cache_hits = 3
        /\ Len(cast_log) = 6
        /\ cast_log[1].op = "mod.tree_hash" /\ cast_log[2].op = "curry" /\ cast_log[3].op = "puzzle.tree_hash"
        /\ cast_log[6].op = "curry_and_treehash" /\ cast_log[6].ret = cast_log[3].ret

(***************************************************************************)
(* casts.py: to_clvm_object, the loop behind Program.to.  A Python value   *)
(* is a record of its type ty and its content val: an int, bytes, a str    *)
(* as its code points, a list or tuple as the sequence of its items, a     *)
(* CLVMStorage as its tree (a Program, or a SimpleStorage, whose class has *)
(* no __bytes__), a memoryview as the bytes it views, an object            *)
(* of a class with __bytes__ as the blob that method returns, and an       *)
(* object of a class without __bytes__.                                    *)
(***************************************************************************)
PyInt(i) == [ty |-> "int", val |-> i]

PyBytes(b) == [ty |-> "bytes", val |-> b]

PyStr(s) == [ty |-> "str", val |-> s]

PyList(items) == [ty |-> "list", val |-> items]

PyTuple(items) == [ty |-> "tuple", val |-> items]

\* A Program whose tree is t: a CLVMStorage whose class has __bytes__.
PyStorage(t) == [ty |-> "storage", val |-> t]

\* tests/test_program.py SimpleStorage: a CLVMStorage with atom and pair
\* and no __bytes__.
SimpleStorage(t) == [ty |-> "simple_storage", val |-> t]

PyMemoryview(b) == [ty |-> "memoryview", val |-> b]

\* tests/test_apis.py: an object whose __bytes__ returns its blob.
castable_to_bytes(b) == [ty |-> "castable_to_bytes", val |-> b]

\* tests/test_apis.py dummy_class(): an object with no __bytes__.
PyObject == [ty |-> "object", val |-> 0]

NULL_BLOB == <<>>

\* hasattr(obj, "atom") and hasattr(obj, "pair")
is_clvm_storage(obj) == obj.ty \in {"storage", "simple_storage"}

\* str.encode(): the UTF-8 bytes of code points below 2048.
RECURSIVE str_encode(_)
str_encode(s) == IF s = <<>> THEN <<>>
        ELSE (IF s[1] < 128 THEN <<s[1]>> ELSE <<192 + (s[1] \div 64), 128 + (s[1] % 64)>>) \o str_encode(Tail(s))

\* isinstance(o, (memoryview, SupportsBytes)): a memoryview, or an object
\* whose class has __bytes__ (bytes itself and Program are among them).
memview_or_bytes(o) == o.ty \in {"memoryview", "castable_to_bytes", "bytes", "storage"}

to_atom_type(v) ==
        IF v.ty = "bytes" THEN Ok(v.val)
        ELSE IF v.ty = "str" THEN Ok(str_encode(v.val))
        ELSE IF v.ty = "int" THEN int_to_bytes(v.val)
        ELSE IF memview_or_bytes(v)
        THEN (IF v.ty = "storage" THEN sexp_to_bytes(v.val) ELSE Ok(v.val))
        ELSE [err |-> "ValueError", bytes |-> <<>>]

Program_new_atom(v) == Atom(v)

Program_new_pair(left, right) == Pair(left, right)

\* The pushes of the list branch: one rcons per item, the null terminator,
\* then the items from the last to the first, so that the first is on top.
Reversed(s) == [k \in 1..Len(s) |-> s[Len(s) + 1 - k]]

to_clvm_object_call ==
        /\ cast_input.kind = "to" /\ conv_status = "idle"
        /\ to_convert' = <<cast_input.value>>
        /\ did_convert' = <<>>
        /\ c_ops' = <<0>>
        /\ conv_status' = "running"
        /\ UNCHANGED conv_result
        /\ UNCHANGED <<parseVars, hashVars, castVars>>

\* op 0 putting the items of a list on to_convert in their own order.
convert_list_forward ==
        /\ conv_status = "running" /\ c_ops # <<>> /\ Last(c_ops) = 0
        /\ LET v == Last(to_convert)
               rest_ops == Front(c_ops)
               rest_conv == Front(to_convert)
           IN  IF is_clvm_storage(v)
               THEN /\ did_convert' = Append(did_convert, v.val)
                    /\ to_convert' = rest_conv /\ c_ops' = rest_ops
                    /\ UNCHANGED <<conv_status, conv_result>>
               ELSE IF v.ty = "tuple"
               THEN IF Len(v.val) # 2
                    THEN /\ conv_status' = "raised" /\ conv_result' = ValueError
                         /\ to_convert' = rest_conv /\ c_ops' = rest_ops
                         /\ UNCHANGED did_convert
                    ELSE LET left == v.val[1]
                             right == v.val[2]
                         IN  IF is_clvm_storage(right) /\ is_clvm_storage(left)
                             THEN /\ did_convert' = Append(did_convert, Program_new_pair(left.val, right.val))
                                  /\ to_convert' = rest_conv /\ c_ops' = rest_ops
                                  /\ UNCHANGED <<conv_status, conv_result>>
                             ELSE /\ c_ops' = rest_ops \o <<1, 0, 0>>
                                  /\ to_convert' = rest_conv \o <<left, right>>
                                  /\ UNCHANGED <<did_convert, conv_status, conv_result>>
               ELSE IF v.ty = "list"
               THEN /\ c_ops' = rest_ops \o Repeat(2, Len(v.val)) \o <<0>> \o Repeat(0, Len(v.val))
                    /\ to_convert' = rest_conv \o <<PyStorage(Program_new_atom(NULL_BLOB))>> \o v.val
                    /\ UNCHANGED <<did_convert, conv_status, conv_result>>
               ELSE LET a == to_atom_type(v)
                    IN  IF a.err # "none"
                        THEN /\ conv_status' = "raised" /\ conv_result' = ValueError
                             /\ to_convert' = rest_conv /\ c_ops' = rest_ops
                             /\ UNCHANGED did_convert
                        ELSE /\ did_convert' = Append(did_convert, Program_new_atom(a.bytes))
                             /\ to_convert' = rest_conv /\ c_ops' = rest_ops
                             /\ UNCHANGED <<conv_status, conv_result>>
        /\ UNCHANGED <<parseVars, hashVars, castVars>>

\* op 0: pop to_convert and convert it, or split the task in two or more.
convert ==
        /\ conv_status = "running" /\ c_ops # <<>> /\ Last(c_ops) = 0
        /\ LET v == Last(to_convert)
               rest_ops == Front(c_ops)
               rest_conv == Front(to_convert)
           IN  IF is_clvm_storage(v)
               THEN /\ did_convert' = Append(did_convert, v.val)
                    /\ to_convert' = rest_conv /\ c_ops' = rest_ops
                    /\ UNCHANGED <<conv_status, conv_result>>
               ELSE IF v.ty = "tuple"
               THEN IF Len(v.val) # 2
                    THEN /\ conv_status' = "raised" /\ conv_result' = ValueError
                         /\ to_convert' = rest_conv /\ c_ops' = rest_ops
                         /\ UNCHANGED did_convert
                    ELSE LET left == v.val[1]
                             right == v.val[2]
                         IN  IF is_clvm_storage(right) /\ is_clvm_storage(left)
                             THEN /\ did_convert' = Append(did_convert, Program_new_pair(left.val, right.val))
                                  /\ to_convert' = rest_conv /\ c_ops' = rest_ops
                                  /\ UNCHANGED <<conv_status, conv_result>>
                             ELSE /\ c_ops' = rest_ops \o <<1, 0, 0>>
                                  /\ to_convert' = rest_conv \o <<left, right>>
                                  /\ UNCHANGED <<did_convert, conv_status, conv_result>>
               ELSE IF v.ty = "list"
               THEN /\ c_ops' = rest_ops \o Repeat(2, Len(v.val)) \o <<0>> \o Repeat(0, Len(v.val))
                    /\ to_convert' = rest_conv \o <<PyStorage(Program_new_atom(NULL_BLOB))>> \o Reversed(v.val)
                    /\ UNCHANGED <<did_convert, conv_status, conv_result>>
               ELSE LET a == to_atom_type(v)
                    IN  IF a.err # "none"
                        THEN /\ conv_status' = "raised" /\ conv_result' = ValueError
                             /\ to_convert' = rest_conv /\ c_ops' = rest_ops
                             /\ UNCHANGED did_convert
                        ELSE /\ did_convert' = Append(did_convert, Program_new_atom(a.bytes))
                             /\ to_convert' = rest_conv /\ c_ops' = rest_ops
                             /\ UNCHANGED <<conv_status, conv_result>>
        /\ UNCHANGED <<parseVars, hashVars, castVars>>

\* op 1 popping the left only and leaving the right on did_convert.
cons_pops_one ==
        /\ conv_status = "running" /\ c_ops # <<>> /\ Last(c_ops) = 1
        /\ LET left == Last(did_convert)
               right == Last(Front(did_convert))
           IN  did_convert' = Append(Front(did_convert), Program_new_pair(left, right))
        /\ c_ops' = Front(c_ops)
        /\ UNCHANGED <<to_convert, conv_status, conv_result>>
        /\ UNCHANGED <<parseVars, hashVars, castVars>>

\* op 1: the top of did_convert is the left, the one below it the right.
cons ==
        /\ conv_status = "running" /\ c_ops # <<>> /\ Last(c_ops) = 1
        /\ LET left == Last(did_convert)
               right == Last(Front(did_convert))
           IN  did_convert' = Append(Front(Front(did_convert)), Program_new_pair(left, right))
        /\ c_ops' = Front(c_ops)
        /\ UNCHANGED <<to_convert, conv_status, conv_result>>
        /\ UNCHANGED <<parseVars, hashVars, castVars>>

\* op 2: the top of did_convert is the right, the one below it the left.
rcons ==
        /\ conv_status = "running" /\ c_ops # <<>> /\ Last(c_ops) = 2
        /\ LET right == Last(did_convert)
               left == Last(Front(did_convert))
           IN  did_convert' = Append(Front(Front(did_convert)), Program_new_pair(left, right))
        /\ c_ops' = Front(c_ops)
        /\ UNCHANGED <<to_convert, conv_status, conv_result>>
        /\ UNCHANGED <<parseVars, hashVars, castVars>>

\* The loop is over: the assert on did_convert, then Program.to wraps the object.
to_clvm_object_return ==
        /\ conv_status = "running" /\ c_ops = <<>>
        /\ IF Len(did_convert) = 1
           THEN conv_status' = "returned" /\ conv_result' = Program_wrap(did_convert[1])
           ELSE conv_status' = "raised" /\ conv_result' = AssertionError
        /\ UNCHANGED <<to_convert, did_convert, c_ops>>
        /\ UNCHANGED <<parseVars, hashVars, castVars>>

MaxListLen == 3

PyLeaves == {PyInt(0), PyInt(1), PyInt(-129), PyBytes(FOO), PyStr(<<97, 233>>),
             PyStorage(Pair(Atom(FOO), Atom(BAR))), SimpleStorage(Atom(BAR)), PyObject,
             PyMemoryview(BAR), castable_to_bytes(<<179, 184>>)}

PyNested == {PyInt(2), PyList(<<PyInt(1), PyInt(2), PyInt(3)>>), PyTuple(<<PyInt(1), PyInt(2)>>),
             PyTuple(<<PyInt(1)>>), PyList(<<>>), PyTuple(<<PyBytes(FOO), PyList(<<PyObject>>)>>),
             PyList(<<PyTuple(<<PyStorage(Nil), PyStorage(Atom(ONE))>>), PyInt(3)>>)}

Castables == PyLeaves \cup PyNested
        \cup {PyList(items) : items \in SeqsUpTo(PyLeaves, MaxListLen) \cup SeqsUpTo(PyNested, 2)}
        \cup {PyTuple(items) : items \in SeqsUpTo(PyLeaves, 3) \cup SeqsUpTo(PyNested, 2)}

InitTo ==
        /\ \E v \in Castables : cast_input = [kind |-> "to", value |-> v]
        /\ cast_log = <<>>
        /\ ParseIdle /\ HashIdle /\ ConvIdle

NextTo ==
        \/ to_clvm_object_call
        \/ convert
        \/ cons
        \/ rcons
        \/ to_clvm_object_return

SpecTo == InitTo /\ [][NextTo]_vars

\* Whether v holds, at any depth, a tuple whose length is not 2 or a leaf
\* that cannot be cast to bytes.
RECURSIVE HasBadPart(_)
HasBadPart(v) ==
        IF v.ty = "tuple" THEN Len(v.val) # 2 \/ \E k \in DOMAIN v.val : HasBadPart(v.val[k])
        ELSE IF v.ty = "list" THEN \E k \in DOMAIN v.val : HasBadPart(v.val[k])
        ELSE v.ty = "object"

\* The tree a value stands for: (x1 . (x2 . ... (xn . nil))) for a list,
\* (l . r) for a 2-tuple.
RECURSIVE Denotes(_)
Denotes(v) ==
        IF v.ty = "list"
        THEN IF v.val = <<>> THEN Atom(<<>>) ELSE Pair(Denotes(v.val[1]), Denotes(PyList(Tail(v.val))))
        ELSE IF v.ty = "tuple" THEN Pair(Denotes(v.val[1]), Denotes(v.val[2]))
        ELSE IF v.ty \in {"storage", "simple_storage"} THEN v.val
        ELSE IF v.ty \in {"memoryview", "castable_to_bytes"} THEN Atom(v.val)
        ELSE Atom(to_atom_type(v).bytes)

(***************************************************************************)
(* C17: Program.to converts a list [x1, ..., xn] into the nil-terminated   *)
(* chain (x1 . (x2 . ... (xn . nil))) with the elements in their original  *)
(* order, a 2-tuple (l, r) into the pair (l . r) with l as first and r as  *)
(* rest, and raises ValueError for a tuple whose length is not 2 or for a  *)
(* leaf that cannot be cast to bytes.                                      *)
(***************************************************************************)
C17_ProgramTo ==
        /\ conv_status = "returned" => (~HasBadPart(cast_input.value) /\ conv_result = Denotes(cast_input.value))
        /\ conv_status = "raised" => (HasBadPart(cast_input.value) /\ conv_result = ValueError)
        /\ (conv_status = "running" /\ c_ops = <<>>) => Len(did_convert) = 1

C17_Witness ==
        /\ cast_input.value = PyList(<<PyInt(1), PyInt(2), PyInt(3)>>)
        /\ conv_status = "returned"
        /\ conv_result = Pair(Atom(<<1>>), Pair(Atom(<<2>>), Pair(Atom(<<3>>), Atom(<<>>))))

(***************************************************************************)
(* Calls of at and Program.at on a node and a position.                    *)
(***************************************************************************)
MaxPathLen == 3

PathLetters == {"f", "r", "F", "R", "q"}

\* The list and the positions of test_at.
TestAtProgram == ListOf(<<Atom(<<10>>), Atom(<<20>>), Atom(<<30>>), ListOf(<<Atom(<<15>>), Atom(<<17>>)>>),
                          Atom(<<40>>), Atom(<<50>>)>>)

TestAtPositions == {<<"r", "r", "r", "f", "r", "f">>, <<"R", "r", "R", "F", "r", "f">>,
                    <<"r", "r", "r", "f", "r", "f", "q">>, <<"r", "r", "r", "f", "q", "f">>}

AtNodes == {TestAtProgram, Atom(<<10>>), Nil, Pair(Atom(FOO), Atom(BAR)),
            Pair(Pair(Atom(FOO), Nil), Pair(Atom(BAR), Pair(Nil, Atom(ONE))))}

at_call ==
        /\ cast_input.kind = "at" /\ NotCalled("at")
        /\ LET v == cast_input.value
           IN  cast_log' = Append(cast_log, Call("at", v, at(v.obj, v.position)))
        /\ UNCHANGED cast_input
        /\ UNCHANGED <<parseVars, hashVars, convVars>>

Program_at_call ==
        /\ cast_input.kind = "at" /\ NotCalled("Program.at")
        /\ LET v == cast_input.value
           IN  cast_log' = Append(cast_log, Call("Program.at", v, Program_at(v.obj, v.position)))
        /\ UNCHANGED cast_input
        /\ UNCHANGED <<parseVars, hashVars, convVars>>

InitAt ==
        /\ \E obj \in AtNodes, position \in SeqsUpTo(PathLetters, MaxPathLen) \cup TestAtPositions :
                cast_input = [kind |-> "at", value |-> [obj |-> obj, position |-> position]]
        /\ cast_log = <<>>
        /\ ParseIdle /\ HashIdle /\ ConvIdle

NextAt ==
        \/ at_call
        \/ Program_at_call

SpecAt == InitAt /\ [][NextAt]_vars

IsF(c) == c \in {"f", "F"}

IsR(c) == c \in {"r", "R"}

LegalPath(position) == \A k \in DOMAIN position : IsF(position[k]) \/ IsR(position[k])

\* The walk of a path of f and r: first for f, rest for r, None once an atom
\* is met with letters still to go.
RECURSIVE Walk(_, _)
Walk(node, position) ==
        IF position = <<>> THEN node
        ELSE IF IsAtom(node) THEN PyNone
        ELSE Walk(node.pair[IF IsF(position[1]) THEN 1 ELSE 2], Tail(position))

(***************************************************************************)
(* C18: at(node, path) and Program.at(path) return the node reached from   *)
(* the start node by taking first for each 'f' and rest for each 'r' of    *)
(* the path in order (case-insensitively), and return None when an atom is *)
(* met before the path is exhausted.                                       *)
(***************************************************************************)
C18_AtFollowsPath == \A i \in DOMAIN cast_log :
        (cast_log[i].op \in {"at", "Program.at"} /\ LegalPath(cast_log[i].arg.position)) =>
            cast_log[i].ret = Walk(cast_log[i].arg.obj, cast_log[i].arg.position)

C18_Witness ==
        /\ cast_input.value = [obj |-> TestAtProgram, position |-> <<"R", "r", "R", "F", "r", "f">>]
        /\ Len(cast_log) = 2
        /\ cast_log[1].ret = Atom(<<17>>) /\ cast_log[2].ret = Atom(<<17>>)

\* The place of the first letter of position that is neither f nor r, 0 if none.
FirstIllegal(position) ==
        IF LegalPath(position) THEN 0
        ELSE CHOOSE k \in DOMAIN position :
                /\ ~(IsF(position[k]) \/ IsR(position[k]))
                /\ \A j \in 1..(k - 1) : IsF(position[j]) \/ IsR(position[j])

\* The node the walk stands on when it comes to the first illegal letter.
NodeAtIllegal(obj, position) == Walk(obj, SubSeq(position, 1, FirstIllegal(position) - 1))

(***************************************************************************)
(* C19 as stated: for every node and every path string that contains a     *)
(* character other than 'f' or 'r' (in either case), at and Program.at     *)
(* raise ValueError.                                                       *)
(***************************************************************************)
C19_IllegalAlwaysRaises == \A i \in DOMAIN cast_log :
        (cast_log[i].op \in {"at", "Program.at"} /\ ~LegalPath(cast_log[i].arg.position)) =>
            cast_log[i].ret = AtError

(***************************************************************************)
(* C19 amended: on a path with a character other than 'f' or 'r', at and   *)
(* Program.at raise ValueError when the walk of the letters before the     *)
(* first such character ends on a pair; when an atom is met before those   *)
(* letters are exhausted both return None; when the walk ends exactly on   *)
(* an atom, Program.at raises ValueError and at returns None.              *)
(***************************************************************************)
C19_IllegalRaisesWhenReached == \A i \in DOMAIN cast_log :
        (cast_log[i].op \in {"at", "Program.at"} /\ ~LegalPath(cast_log[i].arg.position)) =>
            LET n == NodeAtIllegal(cast_log[i].arg.obj, cast_log[i].arg.position)
                ret == cast_log[i].ret
            IN  /\ (n # PyNone /\ IsPair(n)) => ret = AtError
                /\ n = PyNone => ret = PyNone
                /\ (n # PyNone /\ IsAtom(n)) => ret = (IF cast_log[i].op = "at" THEN PyNone ELSE AtError)

C19_Witness ==
        /\ cast_input.value = [obj |-> TestAtProgram, position |-> <<"f", "f", "q">>]
        /\ Len(cast_log) = 2
        /\ cast_log[1].ret = PyNone /\ cast_log[2].ret = PyNone

(***************************************************************************)
(* Program.replace and _replace, on objects: a Program is the index of an  *)
(* object of heap, new_pair and Program.to add objects after the ones      *)
(* there.  kwargs is the keyword dictionary in its order, each item a path *)
(* and a value; a value is a tree still to be cast, [raw |-> t], or a      *)
(* Program already, [obj |-> index].                                       *)
(***************************************************************************)
Kwarg(path, value) == [path |-> path, value |-> value]

\* What a call leaves: the heap, whether it raised ValueError, and what it returned.
Replaced(h, ret) == [heap |-> h, raised |-> FALSE, ret |-> ret]

ReplaceRaised(h) == [heap |-> h, raised |-> TRUE, ret |-> 0]

\* program.to(v): a Program is itself, another value gets objects of its own.
replace_to(h, v) ==
        IF "obj" \in DOMAIN v THEN Replaced(h, v.obj)
        ELSE LET objs == Shift(HeapOf(v.raw), Len(h))
             IN  Replaced(h \o objs, Len(h) + Len(objs))

\* The loop over kwargs.items() sending every letter but f to the r group.
RECURSIVE replace_split_unchecked(_, _, _, _)
replace_split_unchecked(h, kwargs, f, r) ==
        IF kwargs = <<>> THEN [heap |-> h, raised |-> FALSE, f |-> f, r |-> r]
        ELSE LET k == kwargs[1].path
                 c == k[1]
                 to == replace_to(h, kwargs[1].value)
                 item == Kwarg(Tail(k), [obj |-> to.ret])
             IN  IF c = "f" THEN replace_split_unchecked(to.heap, Tail(kwargs), Append(f, item), r)
                 ELSE replace_split_unchecked(to.heap, Tail(kwargs), f, Append(r, item))

\* The loop over kwargs.items() that fills args_by_prefix.
RECURSIVE replace_split(_, _, _, _)
replace_split(h, kwargs, f, r) ==
        IF kwargs = <<>> THEN [heap |-> h, raised |-> FALSE, f |-> f, r |-> r]
        ELSE LET k == kwargs[1].path
                 c == k[1]
             IN  IF c \notin {"f", "r"} THEN [heap |-> h, raised |-> TRUE, f |-> f, r |-> r]
                 ELSE LET to == replace_to(h, kwargs[1].value)
                          item == Kwarg(Tail(k), [obj |-> to.ret])
                      IN  IF c = "f" THEN replace_split(to.heap, Tail(kwargs), Append(f, item), r)
                          ELSE replace_split(to.heap, Tail(kwargs), f, Append(r, item))

\* new_pair writing the new halves into the object of program itself.
replace_new_pair_in_place(h, program, new_f, new_r) ==
        Replaced([h EXCEPT ![program] = PairObj(new_f, new_r, FALSE)], program)

\* program.new_pair(new_f, new_r): a new object.
replace_new_pair(h, program, new_f, new_r) ==
        Replaced(Append(h, PairObj(new_f, new_r, FALSE)), Len(h) + 1)

RECURSIVE _replace(_, _, _)
_replace(h, program, kwargs) ==
        IF Len(kwargs) = 0 THEN Replaced(h, program)
        ELSE IF \E i \in DOMAIN kwargs : kwargs[i].path = <<>>
        THEN IF Len(kwargs) > 1 THEN ReplaceRaised(h)
             ELSE LET v == kwargs[1].value
                  IN  Replaced(h, IF "obj" \in DOMAIN v THEN v.obj ELSE v)
        ELSE LET args_by_prefix == replace_split(h, kwargs, <<>>, <<>>)
             IN  IF args_by_prefix.raised THEN ReplaceRaised(args_by_prefix.heap)
                 ELSE IF ~h[program].is_pair THEN ReplaceRaised(args_by_prefix.heap)
                 ELSE LET new_f == _replace(args_by_prefix.heap, h[program].left, args_by_prefix.f)
                      IN  IF new_f.raised THEN new_f
                          ELSE LET new_r == _replace(new_f.heap, h[program].right, args_by_prefix.r)
                               IN  IF new_r.raised THEN new_r
                                   ELSE replace_new_pair(new_r.heap, program, new_f.ret, new_r.ret)

Program_replace(h, self, kwargs) == _replace(h, self, kwargs)

(***************************************************************************)
(* replace.py: replace, on trees.  It casts nothing and returns the new    *)
(* pair as a 2-tuple for Program.to to cast.                               *)
(***************************************************************************)
PyRaised == [ty |-> "raised", val |-> "ValueError"]

RECURSIVE replace(_, _)
replace(program, kwargs) ==
        IF Len(kwargs) = 0 THEN PyStorage(program)
        ELSE IF \E i \in DOMAIN kwargs : kwargs[i].path = <<>>
        THEN IF Len(kwargs) > 1 THEN PyRaised ELSE kwargs[1].value
        ELSE IF \E i \in DOMAIN kwargs : kwargs[i].path[1] \notin {"f", "r"} THEN PyRaised
        ELSE IF ~IsPair(program) THEN PyRaised
        ELSE LET group(c) == SelectSeq(kwargs, LAMBDA kw : kw.path[1] = c)
                 strip(g) == [i \in DOMAIN g |-> Kwarg(Tail(g[i].path), g[i].value)]
                 new_f == replace(program.pair[1], strip(group("f")))
             IN  IF new_f = PyRaised THEN PyRaised
                 ELSE LET new_r == replace(program.pair[2], strip(group("r")))
                      IN  IF new_r = PyRaised THEN PyRaised ELSE PyTuple(<<new_f, new_r>>)

MaxKwargs == 2

\* The list of test_replace and the values it puts in.
TestReplaceProgram == ListOf(<<Atom(<<100>>), Atom(<<0, 200>>), Atom(<<1, 44>>)>>)

ReplaceNodes == {TestReplaceProgram, Pair(Pair(Atom(FOO), Nil), Atom(BAR))}

ReplaceValues == {Atom(<<105>>), ListOf(<<Atom(<<1, 45>>), Atom(<<1, 46>>)>>)}

\* Keyword names: the paths of f and r, and the bad paths of the tests.
ReplacePaths == (SeqsUpTo({"f", "r"}, MaxPathLen) \ {<<>>}) \cup {<<"q">>, <<"r", "q">>, <<"F">>}

\* Dictionaries of up to MaxKwargs items: no path twice.
KwargsSet == {kw \in SeqsUpTo({Kwarg(path, v) : path \in ReplacePaths, v \in ReplaceValues}, MaxKwargs) :
                \A i, j \in DOMAIN kw : kw[i].path = kw[j].path => i = j}

RawKwargs(kwargs) == [i \in DOMAIN kwargs |-> Kwarg(kwargs[i].path, [raw |-> kwargs[i].value])]

PyKwargs(kwargs) == [i \in DOMAIN kwargs |-> Kwarg(kwargs[i].path, PyStorage(kwargs[i].value))]

Program_replace_call ==
        /\ cast_input.kind = "replace" /\ NotCalled("Program.replace")
        /\ LET v == cast_input.value
               r == Program_replace(heap, Len(HeapOf(v.program)), RawKwargs(v.kwargs))
           IN  /\ heap' = r.heap
               /\ cast_log' = Append(cast_log, Call("Program.replace", v, IF r.raised THEN ValueError ELSE [obj |-> r.ret]))
        /\ UNCHANGED cast_input
        /\ UNCHANGED <<h_op_stack, obj_stack, hash_stack, h_root, h_status, h_result, cache_hits, h_calls>>
        /\ UNCHANGED <<parseVars, convVars>>

replace_call ==
        /\ cast_input.kind = "replace" /\ NotCalled("replace")
        /\ LET v == cast_input.value
           IN  cast_log' = Append(cast_log, Call("replace", v, replace(v.program, PyKwargs(v.kwargs))))
        /\ UNCHANGED cast_input
        /\ UNCHANGED <<parseVars, hashVars, convVars>>

InitReplace ==
        /\ \E program \in ReplaceNodes, kwargs \in KwargsSet :
                /\ cast_input = [kind |-> "replace", value |-> [program |-> program, kwargs |-> kwargs]]
                /\ heap = HeapOf(program)
        /\ cast_log = <<>>
        /\ h_op_stack = <<>> /\ obj_stack = <<>> /\ hash_stack = <<>>
        /\ h_root = 0 /\ h_status = "idle" /\ h_result = None
        /\ cache_hits = 0 /\ h_calls = 0
        /\ ParseIdle /\ ConvIdle

NextReplace ==
        \/ Program_replace_call
        \/ replace_call

SpecReplace == InitReplace /\ [][NextReplace]_vars

\* Neither path is the beginning of the other.
Apart(p, q) == \E k \in 1..Min(Len(p), Len(q)) : p[k] # q[k]

(***************************************************************************)
(* C20: when p.replace(path_1=v_1, ..., path_n=v_n) returns, it returns a  *)
(* new tree r such that r.at(path_i) == Program.to(v_i) for every i and    *)
(* every subtree of r that is not on or under a replaced path equals the   *)
(* corresponding subtree of p; the original p is left unchanged.           *)
(* replace of replace.py returns the same tree once Program.to casts it.   *)
(***************************************************************************)
C20_ReplaceFrame == \A i \in DOMAIN cast_log :
        LET v == cast_log[i].arg
            ret == cast_log[i].ret
            original == HeapOf(v.program)
        IN  /\ cast_log[i].op = "Program.replace" =>
                /\ SubSeq(heap, 1, Len(original)) = original
                /\ TreeOf(heap, Len(original)) = v.program
                /\ ret # ValueError =>
                        LET r == TreeOf(heap, ret.obj)
                        IN  /\ \A k \in DOMAIN v.kwargs :
                                    /\ Program_at(r, v.kwargs[k].path) # PyNone
                                    /\ Program_eq(Program_at(r, v.kwargs[k].path), v.kwargs[k].value)
                            /\ \A q \in SeqsUpTo({"f", "r"}, MaxPathLen + 1) :
                                    (\A k \in DOMAIN v.kwargs : Apart(q, v.kwargs[k].path)) =>
                                        Program_at(r, q) = Program_at(v.program, q)
                            /\ v.kwargs # <<>> => ret.obj > Len(original)
            /\ cast_log[i].op = "replace" =>
                \A j \in DOMAIN cast_log : cast_log[j].op = "Program.replace" =>
                    IF ret = PyRaised THEN cast_log[j].ret = ValueError
                    ELSE cast_log[j].ret # ValueError /\ Denotes(ret) = TreeOf(heap, cast_log[j].ret.obj)

C20_Witness ==
        /\ cast_input.value = [program |-> TestReplaceProgram,
                               kwargs |-> <<Kwarg(<<"f">>, Atom(<<105>>)),
                                            Kwarg(<<"r", "r", "f">>, ListOf(<<Atom(<<1, 45>>), Atom(<<1, 46>>)>>))>>]
        /\ Len(cast_log) = 2 /\ cast_log[1].op = "Program.replace"
        /\ TreeOf(heap, cast_log[1].ret.obj) = ListOf(<<Atom(<<105>>), Atom(<<0, 200>>), ListOf(<<Atom(<<1, 45>>), Atom(<<1, 46>>)>>)>>)

\* p is a beginning of q and shorter than q.
ProperPrefix(p, q) == Len(p) < Len(q) /\ SubSeq(q, 1, Len(p)) = p

BadLetter(path) == \E k \in DOMAIN path : path[k] \notin {"f", "r"}

\* Some beginning of path, shorter than path and made of f and r, ends on an atom of tree.
ThroughAtom(tree, path) == \E k \in 0..(Len(path) - 1) :
        /\ ~BadLetter(SubSeq(path, 1, k))
        /\ Program_at(tree, SubSeq(path, 1, k)) # PyNone
        /\ IsAtom(Program_at(tree, SubSeq(path, 1, k)))

(***************************************************************************)
(* C21: replace raises ValueError and produces no tree when one given path *)
(* is a proper prefix of another given path, when a given path passes      *)
(* through an atom of the original tree, or when a given path contains a   *)
(* character other than 'f' or 'r'.                                        *)
(***************************************************************************)
C21_ReplaceRaises == \A i \in DOMAIN cast_log : cast_log[i].op \in {"Program.replace", "replace"} =>
        LET v == cast_log[i].arg
            paths == {v.kwargs[k].path : k \in DOMAIN v.kwargs}
        IN  (\/ \E p1 \in paths, p2 \in paths : ProperPrefix(p1, p2)
             \/ \E p1 \in paths : ThroughAtom(v.program, p1)
             \/ \E p1 \in paths : BadLetter(p1))
            => cast_log[i].ret = (IF cast_log[i].op = "replace" THEN PyRaised ELSE ValueError)

C21_Witness ==
        /\ cast_input.value = [program |-> TestReplaceProgram,
                               kwargs |-> <<Kwarg(<<"r", "r">>, Atom(<<105>>)), Kwarg(<<"r", "r", "f">>, Atom(<<105>>))>>]
        /\ Len(cast_log) = 2
        /\ cast_log[1].op = "Program.replace" /\ cast_log[1].ret = ValueError
        /\ cast_log[2].ret = PyRaised
        /\ heap # <<>>

(***************************************************************************)
(* Program.as_int and Program.__int__.  as_atom is None on a pair, and     *)
(* int_from_bytes starts with len(blob), which raises TypeError on None.   *)
(***************************************************************************)
IntReturned(value) == [exc |-> "none", value |-> value]

IntRaised(exc) == [exc |-> exc, value |-> 0]

Program_as_int(self) ==
        IF IsPair(self) THEN IntRaised("TypeError") ELSE IntReturned(int_from_bytes(self.atom))

Program_int(self) == Program_as_int(self)

\* The atoms of test_as_int, the pair ff8080 and pairs of integers.
AsIntPrograms == {Atom(a) : a \in CastAtoms} \cup {Pair(Nil, Nil)}
        \cup {Pair(Atom(a), Atom(b)) : a, b \in {<<>>, <<128>>, <<0, 255>>}}

Program_as_int_call ==
        /\ cast_input.kind = "program" /\ NotCalled("as_int")
        /\ cast_log' = Append(cast_log, Call("as_int", cast_input.value, Program_as_int(cast_input.value)))
        /\ UNCHANGED cast_input
        /\ UNCHANGED <<parseVars, hashVars, convVars>>

Program_int_call ==
        /\ cast_input.kind = "program" /\ NotCalled("__int__")
        /\ cast_log' = Append(cast_log, Call("__int__", cast_input.value, Program_int(cast_input.value)))
        /\ UNCHANGED cast_input
        /\ UNCHANGED <<parseVars, hashVars, convVars>>

InitAsInt ==
        /\ \E p \in AsIntPrograms : cast_input = [kind |-> "program", value |-> p]
        /\ cast_log = <<>>
        /\ ParseIdle /\ HashIdle /\ ConvIdle

NextAsInt ==
        \/ Program_as_int_call
        \/ Program_int_call

SpecAsInt == InitAsInt /\ [][NextAsInt]_vars

(***************************************************************************)
(* C22: as_int() of a Program that is a pair returns None, and int() of    *)
(* such a Program raises ValueError.                                       *)
(***************************************************************************)
C22_PairAsInt == \A i \in DOMAIN cast_log : IsPair(cast_log[i].arg) =>
        /\ cast_log[i].op = "as_int" => (cast_log[i].ret.exc = "none" /\ cast_log[i].ret.value = PyNone)
        /\ cast_log[i].op = "__int__" => cast_log[i].ret.exc = "ValueError"

C22_Witness ==
        /\ cast_input.value = Pair(Nil, Nil)
        /\ Len(cast_log) = 2
        /\ cast_log[1].op = "as_int" /\ cast_log[1].ret.exc = "TypeError"
        /\ cast_log[2].op = "__int__" /\ cast_log[2].ret.exc = "TypeError"

(***************************************************************************)
(* C23: after any sequence of tree_hash calls on trees built through       *)
(* Program.to, new_atom, new_pair, wrap or from_bytes, every node whose    *)
(* _cached_sha256_treehash is set holds exactly H of that node (the hash   *)
(* recomputed from its atom, or from its children's hashes); a later       *)
(* tree_hash call that hits the cache returns the same value as a full     *)
(* recomputation.                                                          *)
(***************************************************************************)
C23_CacheHoldsH ==
        /\ \A obj \in DOMAIN heap : heap[obj].cached # None =>
                /\ heap[obj].cached = H(heap, obj)
                /\ heap[obj].cached = (IF heap[obj].is_pair
                        THEN shatree_pair(CHIA_TREEHASHER, H(heap, heap[obj].left), H(heap, heap[obj].right))
                        ELSE shatree_atom(CHIA_TREEHASHER, heap[obj].atom))
        /\ (h_status = "returned" /\ cache_hits > 0) => h_result = H(heap, h_root)

C23_Witness ==
        /\ h_status = "returned" /\ h_calls = 2 /\ cache_hits = 1
        /\ Len(heap) = 3 /\ h_root = 3
        /\ heap[3].is_pair /\ heap[3].cached = h_result
        /\ heap[3].left = 2 /\ heap[2].is_pair /\ heap[2].cached # None

(***************************************************************************)
(* Program.to on a storage object that is no Program: to_clvm_object hands *)
(* it back and Program.wrap makes a new Program that copies its atom and   *)
(* its pair; Program.pair wraps the two children the same way, each in a   *)
(* Program of its own.  The wrappers, which pair makes on first use, are   *)
(* laid out when to is called: they are new objects after the storage      *)
(* objects, with no cached hash, and the storage objects are referred to   *)
(* by none of them.                                                        *)
(***************************************************************************)
Program_to_storage_call ==
        /\ cast_input.kind = "none" /\ h_status = "idle"
        /\ \E o \in 1..Len(heap) :
                /\ heap' = heap \o Shift(HeapOf(TreeOf(heap, o)), Len(heap))
                /\ cast_input' = [kind |-> "wrap", value |-> [o |-> o, storage |-> Len(heap)]]
        /\ UNCHANGED cast_log
        /\ UNCHANGED <<h_op_stack, obj_stack, hash_stack, h_root, h_status, h_result, cache_hits, h_calls>>
        /\ UNCHANGED <<parseVars, convVars>>

\* p.tree_hash() on the Program that to returned, the last object made.
Program_wrap_tree_hash_call ==
        /\ cast_input.kind = "wrap" /\ h_status = "idle"
        /\ h_root' = Len(heap)
        /\ obj_stack' = <<Len(heap)>>
        /\ h_op_stack' = <<"handle_obj">>
        /\ hash_stack' = <<>>
        /\ h_status' = "running"
        /\ h_calls' = h_calls + 1
        /\ UNCHANGED <<heap, h_result, cache_hits>>
        /\ UNCHANGED <<parseVars, castVars, convVars>>

NextWrap ==
        \/ Program_to_storage_call
        \/ Program_wrap_tree_hash_call
        \/ handle_obj
        \/ handle_pair
        \/ sha256_treehash_return

SpecWrap == InitHash /\ [][NextWrap]_vars

\* The objects at and beneath obj.
RECURSIVE Beneath(_, _)
Beneath(h, obj) == IF h[obj].is_pair THEN {obj} \cup Beneath(h, h[obj].left) \cup Beneath(h, h[obj].right) ELSE {obj}

(***************************************************************************)
(* C24: after tree_hash() on a Program obtained by Program.to(o) from a    *)
(* storage object o that permits attribute assignment,                     *)
(* o._cached_sha256_treehash (and that of every storage object beneath it) *)
(* holds that object's tree hash; when o forbids the assignment, the hash  *)
(* is still computed correctly and cached on the Program wrapper only.     *)
(***************************************************************************)
C24_StorageCached == (cast_input.kind = "wrap" /\ h_status = "returned") =>
        /\ h_result = H(heap, cast_input.value.o)
        /\ heap[h_root].cached = h_result
        /\ \A s \in Beneath(heap, cast_input.value.o) :
                heap[s].cached = (IF heap[s].frozen THEN None ELSE H(heap, s))

C24_Witness ==
        /\ cast_input.kind = "wrap" /\ h_status = "returned"
        /\ Len(heap) = 6 /\ cast_input.value.o = 3
        /\ heap[3].is_pair /\ ~heap[3].frozen /\ heap[3].left = 2 /\ heap[3].right = 1
        /\ heap[3].cached = None /\ heap[2].cached = None /\ heap[1].cached = None
        /\ h_result = H(heap, 3) /\ heap[6].cached = h_result /\ h_root = 6

(***************************************************************************)
(* C25: for every byte string b, the stream parser (sexp_from_stream over  *)
(* a stream of b) and the indexed parser (deserialize_as_tuples(b, 0)      *)
(* viewed through CLVMTree) agree: either both raise ValueError, or both   *)
(* succeed, consume the same number of bytes, ignore any bytes after that, *)
(* and produce structurally equal trees.  Bytes after the tree are ignored *)
(* when the stream stops at the end of the tree and every triple lies      *)
(* within the bytes consumed.                                              *)
(***************************************************************************)
C25_ParsersAgree == FromBytesDone =>
        \/ p_status \in ValueErrors /\ d_status \in ValueErrors
        \/ /\ p_status = "ok" /\ d_status = "ok"
           /\ f_pos = obj_list[1][2]
           /\ f_pos <= Len(blob)
           /\ \A i \in DOMAIN obj_list : obj_list[i][1] < obj_list[i][2] /\ obj_list[i][2] <= f_pos
           /\ \A i \in DOMAIN read_log : BigLt(read_log[i].n, BigOfInt(f_pos + 1))
           /\ p_result = CLVMTree_as_tree(0)

C25_Witness ==
        /\ FromBytesDone /\ p_status = "ok" /\ d_status = "ok"
        /\ blob = <<255, 0, 129, 255, 1>> /\ f_pos = 4
        /\ p_result = Pair(Atom(<<0>>), Atom(<<255>>))

(***************************************************************************)
(* program.py: Program.from_bytes_with_cursor(blob, cursor).  The call     *)
(* goes to CLVMTree.from_bytes(blob), which starts deserialize_as_tuples   *)
(* at offset 0 whatever cursor is; the cursor argument is added to         *)
(* len(bytes(tree)) when the call returns.                                 *)
(***************************************************************************)
from_bytes_with_cursor_call ==
        /\ pc = "idle" /\ cast_input.kind = "none"
        /\ \E c \in 0..Len(blob) : cast_input' = [kind |-> "cursor", value |-> c]
        /\ pc' = "from_bytes"
        /\ d_status' = "running"
        /\ obj_list' = <<>>
        /\ tree_hash_list' = <<>>
        /\ d_op_stack' = <<DeserOp("parse_obj", 0)>>
        /\ cursor' = 0
        /\ UNCHANGED <<blob, src_tree, calculate_tree_hash, op_stack, val_stack, f_pos, read_log, p_status, p_result>>
        /\ UNCHANGED <<hashVars, cast_log, convVars>>

from_bytes_with_cursor_return ==
        /\ cast_input.kind = "cursor" /\ FromBytesDone /\ cast_log = <<>>
        /\ LET ret == IF d_status = "ok"
                      THEN [obj |-> Program_from_bytes, new_cursor |-> from_bytes_consumed + cast_input.value]
                      ELSE ValueError
           IN  cast_log' = <<Call("from_bytes_with_cursor", cast_input.value, ret)>>
        /\ UNCHANGED cast_input
        /\ UNCHANGED <<parseVars, hashVars, convVars>>

InitCursor ==
        /\ blob \in RawBlobs
        /\ src_tree = NoTree
        /\ calculate_tree_hash \in BOOLEAN
        /\ pc = "idle"
        /\ op_stack = <<>> /\ val_stack = <<>> /\ f_pos = 0 /\ read_log = <<>>
        /\ p_status = "idle" /\ p_result = NoTree
        /\ d_op_stack = <<>> /\ obj_list = <<>> /\ tree_hash_list = <<>>
        /\ cursor = 0 /\ d_status = "idle"
        /\ HashIdle /\ CastIdle /\ ConvIdle

NextCursor ==
        \/ from_bytes_with_cursor_call
        \/ parse_obj
        \/ save_index
        \/ save_cursor
        \/ deserialize_as_tuples_return
        \/ from_bytes_with_cursor_return

SpecCursor == InitCursor /\ [][NextCursor]_vars

(***************************************************************************)
(* C26: Program.from_bytes_with_cursor(blob, c) deserializes the tree      *)
(* whose serialization begins at offset c of blob and returns              *)
(* (tree, c + n) where n is the length of that tree's serialization, for   *)
(* every valid offset c, not only c = 0.                                   *)
(***************************************************************************)
C26_FromCursor == \A i \in DOMAIN cast_log : cast_log[i].op = "from_bytes_with_cursor" =>
        LET c == cast_log[i].arg
            t == TreeAtOffset(blob, c)
        IN  t.ok => cast_log[i].ret = [obj |-> t.tree, new_cursor |-> t.end]

\* At offset 0 the call does what the claim says.
C26_FromCursorZero == \A i \in DOMAIN cast_log : (cast_log[i].op = "from_bytes_with_cursor" /\ cast_log[i].arg = 0) =>
        LET t == TreeAtOffset(blob, 0)
        IN  cast_log[i].ret = (IF t.ok THEN [obj |-> t.tree, new_cursor |-> t.end] ELSE ValueError)

C26_Witness ==
        /\ blob = <<255, 0, 129, 255, 1>>
        /\ cast_log = <<Call("from_bytes_with_cursor", 2, [obj |-> Pair(Atom(<<0>>), Atom(<<255>>)), new_cursor |-> 6])>>
        /\ TreeAtOffset(blob, 2) = [ok |-> TRUE, tree |-> Atom(<<255>>), end |-> 4]

(***************************************************************************)
(* tree_hash.py: sha256_treehash called on a Treehasher instance self.     *)
(* Inside the method the names shatree_atom and shatree_pair are not       *)
(* attributes of self: they resolve to the module's globals, the bound     *)
(* methods of CHIA_TREEHASHER, which is what handle_obj and handle_pair    *)
(* apply.  Only cache_hits is taken from self: each instance has its own   *)
(* counter, 0 when it is constructed.  The variable cache_hits is the      *)
(* counter of the instance whose method runs or ran last (self.cache_hits) *)
(* and cast_input.hits keeps the counters of all the instances as they     *)
(* were when that call began.                                              *)
(***************************************************************************)
Treehashers == {CHIA_TREEHASHER, Treehasher(<<3>>, <<4>>), Treehasher(<<1>>, <<4>>), Treehasher(<<>>, <<2>>)}

\* The counters of all the instances now: the one in use holds cache_hits,
\* and before the first call each holds the 0 of Treehasher.__init__.
InstanceHits == IF cast_input.kind = "treehasher"
        THEN [cast_input.hits EXCEPT ![cast_input.value] = cache_hits]
        ELSE [t \in Treehashers |-> 0]

Treehasher_sha256_treehash_call ==
        /\ h_status \in {"idle", "returned"} /\ h_calls < MaxCalls
        /\ \E self \in Treehashers :
            /\ cast_input' = [kind |-> "treehasher", value |-> self, hits |-> InstanceHits]
            /\ cache_hits' = InstanceHits[self]
        /\ \E clvm_storage \in 1..Len(heap) :
            /\ h_root' = clvm_storage
            /\ obj_stack' = <<clvm_storage>>
        /\ h_op_stack' = <<"handle_obj">>
        /\ hash_stack' = <<>>
        /\ h_status' = "running"
        /\ h_calls' = h_calls + 1
        /\ UNCHANGED <<heap, h_result, cast_log>>
        /\ UNCHANGED <<parseVars, convVars>>

NextHasher ==
        \/ Treehasher_sha256_treehash_call
        \/ handle_obj
        \/ handle_pair
        \/ sha256_treehash_return

SpecHasher == InitHash /\ [][NextHasher]_vars

\* The recursive hash with the prefixes of the instance self.
RECURSIVE HWith(_, _, _)
HWith(self, h, obj) == IF h[obj].is_pair
        THEN shatree_pair(self, HWith(self, h, h[obj].left), HWith(self, h, h[obj].right))
        ELSE shatree_atom(self, h[obj].atom)

(***************************************************************************)
(* C27: for every Treehasher instance constructed with prefixes            *)
(* (atom_prefix, pair_prefix), its sha256_treehash(t) equals the recursive *)
(* hash defined with that instance's own prefixes, i.e.                    *)
(* sha256(atom_prefix || a) for atoms and sha256(pair_prefix || H(l) ||    *)
(* H(r)) for pairs, agreeing with the instance's shatree_atom and          *)
(* shatree_pair.                                                           *)
(***************************************************************************)
C27_OwnPrefixes == (h_status = "returned" /\ cast_input.kind = "treehasher") =>
        h_result = HWith(cast_input.value, heap, h_root)

\* Whatever the instance, the result is the hash with the prefixes 01 and 02.
C27_ChiaPrefixes == (h_status = "returned" /\ cast_input.kind = "treehasher") =>
        h_result = HWith(CHIA_TREEHASHER, heap, h_root)

C27_Witness ==
        /\ h_status = "returned" /\ h_calls = 1
        /\ cast_input.kind = "treehasher" /\ cast_input.value = Treehasher(<<3>>, <<4>>)
        /\ Len(heap) = 3 /\ h_root = 3 /\ heap[3].is_pair /\ heap[3].left = 1 /\ heap[3].right = 2
        /\ ~heap[1].is_pair /\ ~heap[2].is_pair
        /\ h_result = shatree_pair(CHIA_TREEHASHER, shatree_atom(CHIA_TREEHASHER, heap[1].atom), shatree_atom(CHIA_TREEHASHER, heap[2].atom))
        /\ h_result # HWith(cast_input.value, heap, h_root)

(***************************************************************************)
(* The two parsers as loops that keep running.  The input is chosen when   *)
(* Program.parse is called; `while op_stack` takes the next task whenever  *)
(* there is one and nothing else runs, so a step of a loop that is enabled *)
(* is eventually taken.  Nothing obliges a caller to make either call.     *)
(***************************************************************************)
MaxTermLen == 3

\* Inputs of the termination check: a one-byte atom, an atom with a length
\* prefix and the pair marker, in every order and cut short anywhere.
TermBlobs == SeqsUpTo({1, 129, 255}, MaxTermLen)

sexp_from_stream_call ==
        /\ pc = "idle"
        /\ \E b \in TermBlobs : blob' = b
        /\ \E c \in BOOLEAN : calculate_tree_hash' = c
        /\ pc' = "parse"
        /\ op_stack' = <<"_op_read_sexp">>
        /\ val_stack' = <<>>
        /\ p_status' = "running"
        /\ UNCHANGED <<src_tree, f_pos, read_log, p_result, d_op_stack, obj_list, tree_hash_list, cursor, d_status>>
        /\ UNCHANGED <<hashVars, castVars, convVars>>

InitTerm ==
        /\ blob = <<>> /\ src_tree = NoTree /\ calculate_tree_hash = FALSE
        /\ pc = "idle"
        /\ op_stack = <<>> /\ val_stack = <<>> /\ f_pos = 0 /\ read_log = <<>>
        /\ p_status = "idle" /\ p_result = NoTree
        /\ d_op_stack = <<>> /\ obj_list = <<>> /\ tree_hash_list = <<>>
        /\ cursor = 0 /\ d_status = "idle"
        /\ HashIdle /\ CastIdle /\ ConvIdle

StreamLoop == _op_read_sexp \/ _op_cons \/ sexp_from_stream_return

TuplesLoop == parse_obj \/ save_index \/ save_cursor \/ deserialize_as_tuples_return

NextTerm ==
        \/ sexp_from_stream_call
        \/ _op_read_sexp
        \/ _op_cons
        \/ sexp_from_stream_return
        \/ deserialize_as_tuples_call
        \/ parse_obj
        \/ save_index
        \/ save_cursor
        \/ deserialize_as_tuples_return

SpecTerm == InitTerm /\ [][NextTerm]_vars /\ WF_vars(StreamLoop) /\ WF_vars(TuplesLoop)

StreamLooping == pc = "parse" /\ p_status = "running"

TuplesLooping == pc = "from_bytes" /\ d_status = "running"

\* A step of either loop that takes a task consumes a byte or leaves fewer
\* tasks pending, and never moves past the end of the input.
ParserProgress ==
        /\ (StreamLooping /\ op_stack # <<>>) => (f_pos' > f_pos \/ Len(op_stack') < Len(op_stack))
        /\ (TuplesLooping /\ d_op_stack # <<>>) => (cursor' > cursor \/ Len(d_op_stack') < Len(d_op_stack))
        /\ f_pos' <= Len(blob')
        /\ cursor' <= Len(blob')

\* Neither loop is running: each call made has returned or raised ValueError.
ParsersTerminated ==
        /\ ~StreamLooping /\ ~TuplesLooping
        /\ p_status \in {"idle", "ok"} \cup ValueErrors
        /\ d_status \in {"idle", "ok"} \cup ValueErrors
        /\ p_status = "ok" => op_stack = <<>>
        /\ d_status = "ok" => d_op_stack = <<>>

(***************************************************************************)
(* C28: deserialize_as_tuples and sexp_from_stream terminate on every      *)
(* finite input: every step either consumes at least one input byte or     *)
(* removes a pending task, so the task stack eventually empties or a       *)
(* ValueError is raised.                                                   *)
(***************************************************************************)
C28_Terminates == [][ParserProgress]_vars /\ <>[]ParsersTerminated

C28_Witness ==
        /\ ParsersTerminated /\ blob = <<255, 1, 129>>
        /\ p_status = "bad encoding" /\ d_status = "end of stream"
        /\ Len(read_log) = 4 /\ Len(obj_list) = 2 /\ Len(d_op_stack) = 1

\* How many entries of the sequence s are in the set S.
RECURSIVE CountIn(_, _)
CountIn(s, S) == IF s = <<>> THEN 0 ELSE CountIn(Front(s), S) + (IF Last(s) \in S THEN 1 ELSE 0)

(***************************************************************************)
(* C29: in to_clvm_object, on every finite acyclic input for which no cast *)
(* error is raised, each convert step finds an item on to_convert, each    *)
(* cons/rcons step finds at least two objects on did_convert, and the loop *)
(* ends with exactly one object on did_convert and none left on            *)
(* to_convert (the final assertion holds).  The stacks are in step while   *)
(* the loop runs: one item on to_convert for each pending convert, and     *)
(* the pending converts and the objects made outnumber the pending cons    *)
(* and rcons by one.                                                       *)
(***************************************************************************)
C29_StacksInStep ==
        /\ conv_status = "running" =>
                /\ Len(to_convert) = CountIn(c_ops, {0})
                /\ Len(did_convert) + CountIn(c_ops, {0}) = CountIn(c_ops, {1, 2}) + 1
                /\ c_ops # <<>> =>
                        /\ Last(c_ops) = 0 => to_convert # <<>>
                        /\ Last(c_ops) \in {1, 2} => Len(did_convert) >= 2
                /\ c_ops = <<>> => (Len(did_convert) = 1 /\ to_convert = <<>>)
        /\ conv_status = "returned" => (Len(did_convert) = 1 /\ to_convert = <<>> /\ c_ops = <<>>)
        /\ conv_status = "raised" => conv_result = ValueError

C29_Witness ==
        /\ cast_input.value = PyList(<<PyTuple(<<PyInt(1), PyInt(2)>>), PyList(<<PyInt(1), PyInt(2), PyInt(3)>>)>>)
        /\ conv_status = "running" /\ c_ops = <<2, 2, 0, 0, 1>>
        /\ did_convert = <<Atom(<<2>>), Atom(<<1>>)>> /\ Len(to_convert) = 2

(***************************************************************************)
(* C30: in sexp_from_stream, whenever _op_cons executes the value stack    *)
(* holds at least two values (the left child beneath the right child), and *)
(* when the task stack empties the value stack holds exactly one value,    *)
(* the root of the parsed tree.  While the loop runs the values made and   *)
(* the pending reads outnumber the pending _op_cons by one; the left child *)
(* is the one whose bytes come first.                                      *)
(***************************************************************************)
C30_ValueStack ==
        /\ StreamLooping =>
                /\ Len(val_stack) + CountIn(op_stack, {"_op_read_sexp"}) = CountIn(op_stack, {"_op_cons"}) + 1
                /\ (op_stack # <<>> /\ Last(op_stack) = "_op_cons") => Len(val_stack) >= 2
                /\ op_stack = <<>> =>
                        /\ Len(val_stack) = 1
                        /\ TreeAtOffset(blob, 0).ok
                        /\ val_stack[1] = TreeAtOffset(blob, 0).tree
        /\ p_status # "IndexError"
        /\ p_status = "ok" => (val_stack = <<>> /\ op_stack = <<>> /\ p_result = TreeAtOffset(blob, 0).tree)

C30_Witness ==
        /\ StreamLooping /\ blob = <<255, 0, 255, 1, 128>>
        /\ op_stack = <<"_op_cons", "_op_cons">>
        /\ val_stack = <<Atom(<<0>>), Atom(<<1>>), Atom(<<>>)>>

====
